---- MODULE Spec2Model ----
\* Verification model of the aggregation and real-time distribution pipeline of
\* AzureAIRealtimeService / AzureAIRealtimeServer (src/azure_realtime_backend.js).
\*
\* Node.js runs the service on one event loop: a step of the model is one
\* callback run to completion (a timer callback, an HTTP handler up to its
\* first pending I/O, the continuation after an I/O call settles, a WebSocket
\* event handler).  Money is counted in cents, unit prices in 1e-10 USD,
\* exchange rates in hundredths, time in milliseconds.
EXTENDS Integers, Sequences, FiniteSets, TLC

\* ------------------------------------------------------------------ bounds
MaxTasks == 2          \* Spec, SpecTicks: invocations of getDashboardData
MaxFaults == 1         \* failed requests, throwing sends and raised exceptions
HubOps == 3            \* SpecHub: aggregations and connections accepted
FrameOps == 3          \* SpecFrame: method invocations and connections accepted
LiveOps == 1           \* SpecLive: refresh ticks and connections accepted
TokenOps == 2          \* SpecToken: usage fetches, one after the other
TestOps == 3           \* SpecTest: configuration tests and usage fetches
MaxAdvances == 3       \* SpecToken: times the clock is put forward
ConfigOps == 2         \* SpecConfig: method invocations of the server once it listens
TimerOps == 2          \* SpecTimers: ticks of the two timers
MaxPieces == 4         \* SpecCalls: pieces a meter name is made of
MaxItems == 3          \* SpecCalls: entries of a catalog response
MaxRows == 3           \* SpecCalls: rows of a usage response
MaxModels == 3         \* SpecCalls: models of a list handed to calculateSummary
MaxChars == 3          \* SpecCalls: characters of a text typed into the form
MaxClients == 2        \* SpecClient: pages loaded
MaxSockets == 2        \* SpecClient: sockets and pending timers of one page
HookOps == 5            \* SpecHook: events the hook handles
MaxFetches == 2         \* SpecHook: requests of the hook in flight
AuthWaits == 1          \* SpecAuth: times the clock is put forward

\* --------------------------------------------------------------- constants
Region == "westeurope"
MinuteMs == 60 * 1000
HourMs == 60 * MinuteMs
TokenValidMs == 50 * 60 * 1000
QuarterMs == 15 * 60 * 1000
StartTime == 14 * HourMs
RefreshMs == 30 * 1000                 \* autoRefreshSeconds, default
CacheDurationMs == 5 * MinuteMs        \* cacheDurationMinutes, default
ClockStep == 20 * MinuteMs             \* the time that passes between two requests
DefaultCZK == 2450                     \* 24.5
DefaultEUR == 85                       \* 0.85
ReconnectSeconds == 5                  \* delay of the reconnection timer
maxFailedAttempts == 5                 \* failures that lock an address out
lockoutDuration == 900000              \* 15 * 60 * 1000 ms

UNDEFINED == "undefined"
Nil == [nil |-> TRUE]
IsNil(x) == "nil" \in DOMAIN x

\* ----------------------------------------------------------- configuration
\* A configuration object: the three identifiers, the client secret by its
\* length (0: the key is absent) and the region.
GoodConfig ==
  [subscriptionId |-> "0b1f6e3a-7c1d-4e8a-9f65-2d3c4b5a6e71",
   tenantId |-> "5a9d2c44-1e0b-4f7c-8a3e-9b6d7c8e1f20",
   clientId |-> "c3e8a1f2-6b4d-4a9e-b7c5-0d1e2f3a4b5c",
   clientSecret |-> 40,
   region |-> UNDEFINED]

\* The configurations handed to the constructors and posted to the
\* configuration test.
Configs ==
  { GoodConfig,
    [GoodConfig EXCEPT !.subscriptionId = UNDEFINED],
    [GoodConfig EXCEPT !.tenantId = "contoso.onmicrosoft.com"],
    [GoodConfig EXCEPT !.clientSecret = 8],
    [GoodConfig EXCEPT !.clientSecret = 300] }

\* Joi.string().uuid()
IsUUID(v) == v \in { GoodConfig.subscriptionId, GoodConfig.tenantId, GoodConfig.clientId }

\* Whether configSchema.validate(config) reports no error.
configSchemaIdsOnly(config) ==
  /\ IsUUID(config.subscriptionId)
  /\ IsUUID(config.tenantId)
  /\ IsUUID(config.clientId)

configSchema(config) ==
  /\ IsUUID(config.subscriptionId)
  /\ IsUUID(config.tenantId)
  /\ IsUUID(config.clientId)
  /\ config.clientSecret >= 32
  /\ config.clientSecret <= 255
  /\ config.region \in
       {UNDEFINED,
        "westeurope", "northeurope", "eastus", "westus", "eastus2", "westus2",
        "centralus", "southcentralus", "westcentralus", "northcentralus",
        "canadacentral", "canadaeast", "brazilsouth", "southafricanorth",
        "eastasia", "southeastasia", "japaneast", "japanwest",
        "australiaeast", "australiasoutheast", "centralindia", "southindia",
        "westindia", "koreacentral", "koreasouth"}

\* Whether testConfigSchema.validate(body) reports no error.
testConfigSchema(body) ==
  /\ IsUUID(body.subscriptionId)
  /\ IsUUID(body.tenantId)
  /\ IsUUID(body.clientId)
  /\ body.clientSecret >= 32
  /\ body.region \in
       {UNDEFINED,
        "westeurope", "northeurope", "eastus", "westus", "eastus2", "westus2",
        "centralus", "southcentralus"}

\* The value configSchema.validate returns for a configuration it accepts:
\* the defaults are filled in.
Validated(config) ==
  [config EXCEPT !.region = IF @ = UNDEFINED THEN Region ELSE @]

\* Date#toISOString: the text is determined by, and determines, the instant.
ToISOString(t) == "T" \o ToString(t)

\* Math.random(): the k-th call of one aggregation, in tenths, from the
\* stream the aggregation draws.
RandomSeeds == {3}
Rand(seed, k) == (seed * k) % 10

\* ------------------------------------------------------ model identification
\* Whether word stands in text at position k, and String#includes from
\* position k on.
At(text, k, word) ==
  /\ k + Len(word) - 1 <= Len(text)
  /\ SubSeq(text, k, k + Len(word) - 1) = word

IncludesFrom(text, k, word) == \E j \in k..Len(text) : At(text, j, word)

\* String#toLowerCase, for the capital letters the catalog texts use.
RECURSIVE toLowerCase(_)
toLowerCase(text) ==
  IF text = "" THEN ""
  ELSE LET c == SubSeq(text, 1, 1)
       IN  (CASE c = "I" -> "i" [] c = "O" -> "o" [] c = "A" -> "a" [] OTHER -> c)
             \o toLowerCase(SubSeq(text, 2, Len(text)))

\* The patterns of extractModelFromMeter, in their order.  A pattern reads
\* /head(?!.*notAfter)(?!notNext).*mid.*tail/i; an empty notAfter, notNext
\* or mid stands for a pattern without that part.
Patterns ==
  LET P(head, notAfter, notNext, mid, model) ==
        << [head |-> head, notAfter |-> notAfter, notNext |-> notNext, mid |-> mid,
            tail |-> "input", model |-> model, type |-> "input"],
           [head |-> head, notAfter |-> notAfter, notNext |-> notNext, mid |-> mid,
            tail |-> "output", model |-> model, type |-> "output"] >>
  IN  P("gpt-4o-mini", "", "", "", "gpt-4o-mini")
      \o P("gpt-4o", "", "-mini", "", "gpt-4o")
      \o P("gpt-4", "", "", "turbo", "gpt-4-turbo")
      \o P("gpt-4", "turbo", "o", "", "gpt-4")
      \o P("gpt-35", "", "", "turbo", "gpt-3.5-turbo")

\* RegExp#test of pattern p on a lower-case text without line breaks.
Test(p, text) ==
  \E k \in 1..Len(text) :
    LET e == k + Len(p.head)
    IN  /\ At(text, k, p.head)
        /\ p.notAfter = "" \/ ~IncludesFrom(text, e, p.notAfter)
        /\ p.notNext = "" \/ ~At(text, e, p.notNext)
        /\ IF p.mid = "" THEN IncludesFrom(text, e, p.tail)
           ELSE \E j \in e..Len(text) :
                  At(text, j, p.mid) /\ IncludesFrom(text, j + Len(p.mid), p.tail)

\* extractModelFromMeter: the first pattern that matches, or Nil for null.
extractModelFromMeter(meterName, productName) ==
  LET searchText == toLowerCase(meterName \o " " \o productName)
      hits == { n \in DOMAIN Patterns : Test(Patterns[n], searchText) }
  IN  IF hits = {} THEN Nil
      ELSE LET n == CHOOSE n \in hits : \A h \in hits : n <= h
           IN  [model |-> Patterns[n].model, type |-> Patterns[n].type]

\* extractModelFromMeterName: the model, or "null" for null.
extractModelFromMeterName(meterName) ==
  LET meter == toLowerCase(meterName)
  IN  IF meterName = "" THEN "null"
      ELSE IF IncludesFrom(meter, 1, "gpt-4o-mini") THEN "gpt-4o-mini"
      ELSE IF IncludesFrom(meter, 1, "gpt-4o") THEN "gpt-4o"
      ELSE IF IncludesFrom(meter, 1, "gpt-4-turbo") \/ IncludesFrom(meter, 1, "gpt-4 turbo")
      THEN "gpt-4-turbo"
      ELSE IF IncludesFrom(meter, 1, "gpt-4") THEN "gpt-4"
      ELSE IF IncludesFrom(meter, 1, "gpt-35-turbo") \/ IncludesFrom(meter, 1, "gpt-3.5-turbo")
      THEN "gpt-3.5-turbo"
      ELSE "null"

\* The meter names of the catalog and of the usage rows: up to n pieces.
MeterPieces == {"gpt-4", "o", "-mini", "-turbo", "-32k", "gpt-35", " Input", " Output"}

RECURSIVE MeterNames(_)
MeterNames(n) ==
  IF n = 0 THEN {""}
  ELSE MeterNames(n - 1) \cup { t \o piece : t \in MeterNames(n - 1), piece \in MeterPieces }

\* ------------------------------------------------------- source responses
\* A record of the pricing list.
PricedModel(name, inp, out, t) ==
  [name |-> name, inputPrice |-> inp, outputPrice |-> out, region |-> Region,
   currency |-> "USD", status |-> "active", lastUpdated |-> ToISOString(t)]

\* An entry of the Items array of a catalog response; an entry without a
\* retailPrice key stands for one whose retailPrice is undefined.
Item(meterName, retailPrice) ==
  [meterName |-> meterName, productName |-> "Azure OpenAI", retailPrice |-> retailPrice,
   armRegionName |-> Region, currencyCode |-> "USD"]

\* The Map parsePricingData has built after the first n entries, in
\* insertion order: per model the directions assigned so far and the prices
\* assigned that are not undefined.
RECURSIVE ParsedModels(_, _)
ParsedModels(items, n) ==
  IF n = 0 THEN << >>
  ELSE LET models == ParsedModels(items, n - 1)
           item == items[n]
           modelInfo == extractModelFromMeter(item.meterName, item.productName)
       IN  IF IsNil(modelInfo) THEN models
           ELSE LET had == IF \E k \in DOMAIN models : models[k].name = modelInfo.model
                           THEN models
                           ELSE Append(models, [name |-> modelInfo.model,
                                                region |-> item.armRegionName,
                                                currency |-> item.currencyCode,
                                                assigned |-> {}, price |-> << >>])
                    k == CHOOSE k \in DOMAIN had : had[k].name = modelInfo.model
                IN  [had EXCEPT
                       ![k].assigned = @ \cup {modelInfo.type},
                       ![k].price =
                          IF "retailPrice" \in DOMAIN item
                          THEN (modelInfo.type :> item.retailPrice) @@ @
                          ELSE [d \in (DOMAIN @) \ {modelInfo.type} |-> @[d]]]

\* parsePricingData at t, for a response whose entries are objects: the
\* models with both directions assigned; a price that is undefined leaves
\* its key out of the record.
parsePricingData(items, t) ==
  LET kept == SelectSeq(ParsedModels(items, Len(items)),
                        LAMBDA m : m.assigned = {"input", "output"})
  IN  [k \in DOMAIN kept |->
         [name |-> kept[k].name, region |-> kept[k].region,
          currency |-> kept[k].currency, status |-> "active",
          lastUpdated |-> ToISOString(t)]
         @@ [d \in { IF type = "input" THEN "inputPrice" ELSE "outputPrice" :
                       type \in DOMAIN kept[k].price } |->
               kept[k].price[IF d = "inputPrice" THEN "input" ELSE "output"]]]

\* The Items of the catalog response of a successful pricing fetch.
CatalogResponses ==
  { << Item("gpt-4o Input", 25000), Item("gpt-4o Output", 100000),
       Item("gpt-4 Input", 300000), Item("gpt-4 Output", 600000) >> }

\* What parsePricingData returns at t for these responses (the lists are
\* parsed once; only the time of the call differs between two calls).
ParsedResponses == { parsePricingData(items, StartTime) : items \in CatalogResponses }

PricingResponses(t) ==
  { [k \in DOMAIN models |-> [models[k] EXCEPT !.lastUpdated = ToISOString(t)]] :
      models \in ParsedResponses }

\* A row of a usage response: cost in cents, the day, the meter, the
\* service.
Row(cost, date, meterName, serviceName) ==
  << cost, date, "USD", meterName, serviceName, 1 >>

\* estimateTokensFromCost: average prices in 1e-9 USD a token.  The floor
\* of the quotient is the one double arithmetic gives for the costs of the
\* rows used here.
estimateTokensFromCost(cost, modelName) ==
  LET avgPricePerToken ==
        ("gpt-4o" :> 6000) @@ ("gpt-4o-mini" :> 375) @@ ("gpt-3.5-turbo" :> 1000)
        @@ ("gpt-4-turbo" :> 20000) @@ ("gpt-4" :> 45000)
  IN  (cost * 10000000) \div avgPricePerToken[modelName]

\* The usage object parseUsageData has built after the first n rows.
\* Math.floor(t * 0.7) in double arithmetic: the double nearest 0.7 lies
\* 0.2 * 2^-52 below it, so for t a multiple of 10 the product, exactly
\* 0.7 t - 0.2 t * 2^-52, is rounded to the double below the whole number
\* 0.7 t when 0.2 t * 2^-52 exceeds half the spacing 2^(k-52) of the doubles
\* there (2^k the largest power of two not above 0.7 t), and to 0.7 t
\* otherwise; for any other t the fraction of 0.7 t is 0.1 at least and the
\* floor is the exact one.  The double nearest 0.3 lies closer to it than
\* half a spacing at any size, so Math.floor(t * 0.3) is always exact.
RECURSIVE parseUsageRows(_, _)
parseUsageRows(rows, n) ==
  IF n = 0 THEN << >>
  ELSE LET usage == parseUsageRows(rows, n - 1)
           RECURSIVE PowerOfTwoBelow(_, _)
           PowerOfTwoBelow(x, p) == IF 2 * p <= x THEN PowerOfTwoBelow(x, 2 * p) ELSE p
           FloorOfTimes07(t) ==
             IF t % 10 = 0 /\ t > 0 /\ 2 * t > 5 * PowerOfTwoBelow((7 * t) \div 10, 1)
             THEN (7 * t) \div 10 - 1 ELSE (7 * t) \div 10
           FloorOfTimes03(t) == (3 * t) \div 10
           cost == rows[n][1]
           modelName == extractModelFromMeterName(rows[n][4])
           estimatedTokens == estimateTokensFromCost(cost, modelName)
           old == IF modelName \in DOMAIN usage THEN usage[modelName]
                  ELSE [totalCost |-> 0, inputTokens |-> 0, outputTokens |-> 0,
                        requests |-> 0, dailyData |-> << >>]
       IN  IF modelName = "null" \/ rows[n][5] # "Cognitive Services" THEN usage
           ELSE (modelName :>
                   [totalCost |-> old.totalCost + cost,
                    inputTokens |-> old.inputTokens + FloorOfTimes07(estimatedTokens),
                    outputTokens |-> old.outputTokens + FloorOfTimes03(estimatedTokens),
                    requests |-> old.requests + estimatedTokens \div 1000,
                    dailyData |-> Append(old.dailyData,
                                         [date |-> rows[n][2], cost |-> cost,
                                          tokens |-> estimatedTokens])])
                @@ usage

parseUsageData(rows) == parseUsageRows(rows, Len(rows))

\* The rows of the response of a successful usage query.
UsageRowResponses ==
  { << Row(100, 1, "gpt-4o Input", "Cognitive Services"),
       Row(200, 2, "gpt-4o Input", "Cognitive Services"),
       Row(40, 2, "gpt-4-turbo Input", "Cognitive Services"),
       Row(30, 2, "gpt-4 Input", "Cognitive Services") >> }

\* What parseUsageData returns for them.
UsageResponses == { parseUsageData(rows) : rows \in UsageRowResponses }

\* The lifetimes the identity source gives the tokens it issues: the token
\* carries its expiry, the response repeats it as expires_in.
TokenLifetimes == { HourMs, HourMs \div 2 }

\* The rates object of a successful exchange-rate response (0: key absent).
RateResponses == { [CZK |-> 2310, EUR |-> 0] }

getFallbackPricingEmpty(t) == << >>

getFallbackPricing(t) ==
  << PricedModel("gpt-4o", 25000, 100000, t),
     PricedModel("gpt-4o-mini", 1500, 6000, t),
     PricedModel("gpt-3.5-turbo", 5000, 15000, t) >>

getFallbackUsage ==
  ("gpt-4o" :> [totalCost |-> 1585, inputTokens |-> 2450000, outputTokens |-> 980000,
                requests |-> 3420, dailyData |-> << >>])
  @@ ("gpt-4o-mini" :> [totalCost |-> 326, inputTokens |-> 8950000, outputTokens |-> 3200000,
                requests |-> 15680, dailyData |-> << >>])
  @@ ("gpt-3.5-turbo" :> [totalCost |-> 1560, inputTokens |-> 15600000, outputTokens |-> 5200000,
                requests |-> 28450, dailyData |-> << >>])

ZeroUsage ==
  [totalCost |-> 0, inputTokens |-> 0, outputTokens |-> 0, requests |-> 0,
   dailyData |-> << >>]

\* ------------------------------------------------------- pure computations
\* Number#toFixed(0) of num/den (den > 0): nearest integer, halves away from 0.
ToFixed0(num, den) ==
  LET mag == IF num < 0 THEN -num ELSE num
      r == (2 * mag + den) \div (2 * den)
  IN  IF num < 0 THEN "-" \o ToString(r) ELSE ToString(r)

calculateTrend(dailyData) ==
  IF Len(dailyData) < 2 THEN "+0%"
  ELSE LET r0 == dailyData[Len(dailyData) - 1].cost
           r1 == dailyData[Len(dailyData)].cost
       IN  IF r0 = 0
           THEN IF r1 > r0 THEN "+Infinity%"
                ELSE IF r1 < r0 THEN "-Infinity%" ELSE "NaN%"
           ELSE (IF (r1 - r0) * 100 >= 0 THEN "+" ELSE "")
                \o ToFixed0((r1 - r0) * 100, r0) \o "%"

\* Local time label of an instant, "HH:MM".
TimeLabel(t) == << (t \div HourMs) % 24, (t \div MinuteMs) % 60 >>

\* Five quarter-hour buckets; cost and tokens in hundredths of the usage unit.
generateHourlyTrend(usage, t, seed, base) ==
  LET baseTime == t - (t % HourMs)
  IN  [j \in 1..5 |->
        [time |-> TimeLabel(baseTime - (5 - j) * QuarterMs),
         cost |-> usage.totalCost * (15 + Rand(seed, base + 2 * j - 1)),
         tokens |-> (usage.inputTokens + usage.outputTokens)
                      * (15 + Rand(seed, base + 2 * j))]]

UsageOfNone(usageData, name) == ZeroUsage

UsageOf(usageData, name) ==
  IF name \in DOMAIN usageData THEN usageData[name] ELSE ZeroUsage

combineModelDataFirstUsage(pricingModels, usageData, t, seed) ==
  [i \in 1..Len(pricingModels) |->
     LET usage == UsageOf(usageData, pricingModels[1].name)
     IN  [usage |-> usage,
          trend |-> calculateTrend(usage.dailyData),
          lastHour |-> generateHourlyTrend(usage, t, seed, 10 * (i - 1))]
         @@ pricingModels[i]]

combineModelData(pricingModels, usageData, t, seed) ==
  [i \in 1..Len(pricingModels) |->
     LET usage == UsageOf(usageData, pricingModels[i].name)
     IN  [usage |-> usage,
          trend |-> calculateTrend(usage.dailyData),
          lastHour |-> generateHourlyTrend(usage, t, seed, 10 * (i - 1))]
         @@ pricingModels[i]]

\* Array#reduce((sum, x) => sum + x, 0)
RECURSIVE Sum(_)
Sum(xs) ==
  IF Len(xs) = 0 THEN 0 ELSE Sum(SubSeq(xs, 1, Len(xs) - 1)) + xs[Len(xs)]

RECURSIVE TopOfLatest(_, _)
TopOfLatest(models, n) ==
  IF n = 0 THEN 1
  ELSE LET top == TopOfLatest(models, n - 1)
       IN  IF models[n].usage.totalCost >= models[top].usage.totalCost THEN n ELSE top

RECURSIVE TopOf(_, _)
TopOf(models, n) ==
  IF n = 0 THEN 1
  ELSE LET top == TopOf(models, n - 1)
       IN  IF models[n].usage.totalCost > models[top].usage.totalCost THEN n ELSE top

PeakHours == << <<14, 0>>, <<14, 15>>, <<14, 30>>, <<14, 45>>, <<15, 0>> >>

calculatePeakHour(models, seed) ==
  PeakHours[((Rand(seed, 10 * Len(models) + 1) * Len(PeakHours)) \div 10) + 1]

CostOf(m) == m.usage.totalCost

TokensOfInput(m) == m.usage.inputTokens

TokensOf(m) == m.usage.inputTokens + m.usage.outputTokens
RequestsOf(m) == m.usage.requests

\* A quotient is the pair of its dividend and divisor: << x, 0 >> stands for
\* NaN when x = 0 and for an infinity otherwise.
avgCostPerRequestUnguarded(totalCost, totalRequests) == << totalCost, totalRequests >>

avgCostPerRequest(totalCost, totalRequests) ==
  IF totalRequests > 0 THEN << totalCost, totalRequests >> ELSE << 0, 1 >>

calculateSummary(models, seed) ==
  LET totalCost == Sum([i \in 1..Len(models) |-> CostOf(models[i])])
      totalTokens == Sum([i \in 1..Len(models) |-> TokensOf(models[i])])
      totalRequests == Sum([i \in 1..Len(models) |-> RequestsOf(models[i])])
  IN  [totalCost |-> totalCost,
       totalTokens |-> totalTokens,
       totalRequests |-> totalRequests,
       avgCostPerRequest |-> avgCostPerRequest(totalCost, totalRequests),
       topModel |-> IF Len(models) = 0 THEN UNDEFINED
                    ELSE models[TopOf(models, Len(models))].name,
       peakHour |-> calculatePeakHour(models, seed)]

\* ---------------------------------------------------------------- state
VARIABLES
  now,            \* Date.now()
  lastUpdate,     \* this.lastUpdate: the current snapshot, or Nil
  exchangeRates,  \* this.exchangeRates: a reference into rateObjs
  rateObjs,       \* the rate objects allocated so far (the heap they live in)
  cache,          \* this.cache: entries pricing, usage, azure_token
  tokensIssued,   \* token exchanges answered so far (names the tokens)
  subscribers,    \* this.subscribers
  readyState,     \* ws.readyState of every connection accepted so far
  sent,           \* per connection, the ws.send calls made on it
  started,        \* invocations of the service's async methods so far
  tasks,          \* the invocations in flight, by start number
  loaded,         \* whether the initial load has been started
  lastBuild,      \* history: the last getDashboardData call that returned, or Nil
  lastResponse,   \* the body of the last answer of GET /api/dashboard, or Nil
  testReply,      \* the last answer of POST /api/test-config, or Nil
  server,         \* the AzureAIRealtimeServer: how far it got, and its configuration
  call,           \* a call of one of the synchronous methods: arguments and result
  clients,        \* the AzureAIDashboardClient of every page loaded so far
  hook,           \* the state of the useDashboardData hook of the mounted dashboard, or Nil
  auth,           \* the AuthenticationManager, or Nil while none is constructed
  faults,         \* history: failures injected so far
  publishLog,     \* history: the aggregations that published, in publish order
  lastPublished   \* history: the message text of the last publish, or Nil

vars == << now, lastUpdate, exchangeRates, rateObjs, cache, tokensIssued,
           subscribers, readyState, sent, started, tasks, loaded, lastBuild, lastResponse,
           testReply, server, call, clients, hook, auth, faults, publishLog,
           lastPublished >>

Tasks == DOMAIN tasks
Sockets == DOMAIN readyState

\* The fields of a service as its constructor has just set them, with no
\* request made yet, no authentication manager constructed, no page loaded
\* and no dashboard mounted.
Constructed ==
  /\ clients = << >>
  /\ hook = Nil
  /\ auth = Nil
  /\ now = StartTime
  /\ lastUpdate = Nil
  /\ rateObjs = << [USD_CZK |-> DefaultCZK, lastUpdate |-> StartTime] >>
  /\ exchangeRates = 1
  /\ cache = [pricing |-> Nil, usage |-> Nil, azure_token |-> Nil]
  /\ tokensIssued = 0
  /\ subscribers = {}
  /\ readyState = << >>
  /\ sent = << >>
  /\ started = 0
  /\ tasks = << >>
  /\ loaded = FALSE
  /\ lastBuild = Nil
  /\ lastResponse = Nil
  /\ testReply = Nil
  /\ faults = 0
  /\ publishLog = << >>
  /\ lastPublished = Nil

Init ==
  /\ Constructed
  /\ server = [phase |-> "listening", config |-> Validated(GoodConfig)]
  /\ call = Nil

\* JSON.stringify of a dashboard result: the rate object is written out by
\* value and a property whose value is undefined is left out.
JSONStringify(data, heap) ==
  [data EXCEPT
     !.exchangeRates = heap[data.exchangeRates],
     !.summary = IF "topModel" \in DOMAIN data.summary
                    /\ data.summary.topModel = UNDEFINED
                 THEN [k \in (DOMAIN data.summary) \ {"topModel"} |-> data.summary[k]]
                 ELSE data.summary]

\* getAzureAccessToken called at t: the cached token is returned while it
\* is younger than 50 minutes.
TokenCached(t) ==
  /\ ~IsNil(cache.azure_token)
  /\ (t - cache.azure_token.timestamp) < TokenValidMs

\* The object getDashboardData builds once its three fetches have settled
\* (the merged list is computed once and then used by the summary).
DashboardData(t, rec, seed) ==
  CHOOSE data \in
    { [models |-> models,
       summary |-> calculateSummary(models, seed),
       exchangeRates |-> rec.rates,
       region |-> Region,
       lastUpdate |-> ToISOString(t),
       status |-> "success"] :
      models \in {combineModelData(rec.pricing, rec.usage, t, seed)} } : TRUE

\* The object getDashboardData returns from its catch clause.
ErrorResult(t, exr) ==
  [models |-> << >>, summary |-> << >>, exchangeRates |-> exr, region |-> Region,
   lastUpdate |-> ToISOString(t), status |-> "error", error |-> "error.message"]

\* broadcastToClients: who stays subscribed, and what is sent to whom.
BroadcastKeepsClosed(subs, failing) == { s \in subs : s \notin failing }

BroadcastKeeps(subs, failing) ==
  { s \in subs : readyState[s] = "OPEN" /\ s \notin failing }

BroadcastSendsLater(subs, failing, message) ==
  [s \in DOMAIN sent |->
     IF s \in subs /\ readyState[s] = "OPEN" /\ sent[s] = << >>
     THEN Append(sent[s], [msg |-> message, ok |-> s \notin failing, via |-> "broadcast"])
     ELSE sent[s]]

BroadcastSendsUnchecked(subs, failing, message) ==
  [s \in DOMAIN sent |->
     IF s \in subs
     THEN Append(sent[s], [msg |-> message, ok |-> s \notin failing, via |-> "broadcast"])
     ELSE sent[s]]

BroadcastSends(subs, failing, message) ==
  [s \in DOMAIN sent |->
     IF s \in subs /\ readyState[s] = "OPEN"
     THEN Append(sent[s], [msg |-> message, ok |-> s \notin failing, via |-> "broadcast"])
     ELSE sent[s]]

SettledButUsage(rec) ==
  /\ rec.pricingSt \in {"skip", "ok", "fallback"}
  /\ rec.ratesSt \in {"skip", "ok", "cached"}
  /\ rec.testSt \in {"skip", "ok", "failed"}

Settled(rec) ==
  /\ rec.pricingSt \in {"skip", "ok", "fallback"}
  /\ rec.usageSt \in {"skip", "ok", "fallback"}
  /\ rec.ratesSt \in {"skip", "ok", "cached"}
  /\ rec.testSt \in {"skip", "ok", "failed"}

\* The body GET /api/dashboard answers with.
DashboardResponse(data, heap) == [success |-> TRUE] @@ JSONStringify(data, heap)

Without(i) == [j \in Tasks \ {i} |-> tasks[j]]

Ended(i, rec, outcome) ==
  [id |-> i, origin |-> rec.origin, outcome |-> outcome,
   pricingSt |-> rec.pricingSt, pricing |-> rec.pricing,
   usageSt |-> rec.usageSt, usage |-> rec.usage,
   ratesSt |-> rec.ratesSt, rates |-> rec.rates,
   before |-> rec.before]

\* What the caller of getDashboardData does with the value returned.
Return(i, rec, outcome, result, heap) ==
  /\ tasks' = Without(i)
  /\ lastBuild' = Ended(i, rec, outcome)
  /\ lastResponse' = IF rec.origin = "pull"
                     THEN DashboardResponse(result, heap) ELSE lastResponse

\* this.lastUpdate after the catch clause of getDashboardData ran: the clause
\* builds and returns the error result and assigns nothing.
AfterCatchStores(current, result) == result

AfterCatch(current, result) == current

\* getDashboardData after Promise.allSettled: merge, summary, publish,
\* broadcast, return; or the catch clause when the merge raises.
FinishDashboard(i, rec, exr, heap, f) ==
  \E throws \in BOOLEAN, seed \in RandomSeeds,
     failing \in SUBSET { s \in subscribers : readyState[s] = "OPEN" } :
    IF throws
    THEN /\ faults' = f + 1
         /\ Return(i, rec, "error", ErrorResult(now, exr), heap)
         /\ lastUpdate' = AfterCatch(lastUpdate, ErrorResult(now, exr))
         /\ UNCHANGED << subscribers, sent, publishLog, lastPublished >>
    ELSE \E data \in {DashboardData(now, rec, seed)} :
         \E message \in {JSONStringify(data, heap)} :
             /\ Return(i, rec, "success", data, heap)
             /\ publishLog' = Append(publishLog, [id |-> i, origin |-> rec.origin])
             /\ faults' = f + Cardinality(failing)
             /\ subscribers' = BroadcastKeeps(subscribers, failing)
             /\ lastUpdate' = data
             /\ sent' = BroadcastSends(subscribers, failing, message)
             /\ lastPublished' = message

\* What follows the settling of one fetch of invocation i, in the same turn
\* of the event loop: nothing while another fetch of it is pending, else the
\* rest of the method.
Continue(i, rec, exr, heap, f) ==
  IF ~Settled(rec)
  THEN /\ tasks' = [tasks EXCEPT ![i] = rec]
       /\ faults' = f
       /\ UNCHANGED << lastUpdate, subscribers, sent, publishLog, lastPublished,
                       lastBuild, lastResponse >>
  ELSE IF rec.kind = "dashboard"
  THEN FinishDashboard(i, rec, exr, heap, f)
  ELSE /\ tasks' = Without(i)
       /\ faults' = f
       /\ UNCHANGED << lastUpdate, subscribers, sent, publishLog, lastPublished,
                       lastBuild, lastResponse >>

\* ------------------------------------------------------ starting a method
NewTask ==
  [kind |-> "none", origin |-> "none",
   pricingSt |-> "skip", pricing |-> << >>,
   usageSt |-> "skip", usage |-> << >>, token |-> Nil,
   ratesSt |-> "skip", rates |-> 0, testSt |-> "skip", config |-> Nil,
   before |-> Nil]

\* The part of a method that runs, at t, before its first pending I/O call.
\* fetchUsageData first asks getAzureAccessToken, which answers from the
\* cache without any request when the cached token is still valid.
Begin(kind, origin, pricing, usage, rates) ==
  [NewTask EXCEPT
     !.kind = kind, !.origin = origin,
     !.pricingSt = IF pricing THEN "wait" ELSE "skip",
     !.usageSt = IF ~usage THEN "skip"
                 ELSE IF TokenCached(now + RefreshMs) THEN "query" ELSE "token",
     !.token = IF usage /\ TokenCached(now + RefreshMs)
               THEN cache.azure_token.data ELSE Nil,
     !.ratesSt = IF rates THEN "wait" ELSE "skip",
     !.before = IF kind = "dashboard" THEN lastUpdate ELSE Nil]

\* One refresh interval separates the starts of two invocations.
Start(rec) ==
  /\ started' = started + 1
  /\ now' = now + RefreshMs
  /\ loaded' = (loaded \/ rec.origin = "init")
  /\ tasks' = (started + 1) :> rec @@ tasks
  /\ UNCHANGED << lastUpdate, exchangeRates, rateObjs, cache, tokensIssued,
                  subscribers, readyState, sent, lastBuild, lastResponse, testReply, server, call, clients, hook, auth,
                  faults, publishLog, lastPublished >>

\* cron callback of the dashboard refresh timer.
DashboardTick == Start(Begin("dashboard", "tick", TRUE, TRUE, TRUE))

\* GET /api/dashboard, up to the await of getDashboardData.
DashboardPull == Start(Begin("dashboard", "pull", TRUE, TRUE, TRUE))

\* The initial load server.start schedules once.
InitialLoad ==
  /\ ~loaded
  /\ Start(Begin("dashboard", "init", TRUE, TRUE, TRUE))

\* GET /api/pricing, GET /api/usage, GET /api/exchange-rates.
PricingEndpoint == Start(Begin("pricing", "endpoint", TRUE, FALSE, FALSE))
UsageEndpoint == Start(Begin("usage", "endpoint", FALSE, TRUE, FALSE))
RatesEndpoint == Start(Begin("rates", "endpoint", FALSE, FALSE, TRUE))

\* cron callback of the exchange-rate timer.
RatesTickWhenIdle ==
  /\ Tasks = {}
  /\ Start(Begin("rates", "timer", FALSE, FALSE, TRUE))

RatesTick == Start(Begin("rates", "timer", FALSE, FALSE, TRUE))

\* The bodies of POST /api/test-config: "invalid" when testConfigSchema
\* rejects it, "oversized" when it accepts but the constructor of the
\* service rejects (a clientSecret of more than 255 characters), "valid"
\* when both accept.
TestBody(config) ==
  IF ~testConfigSchema(config) THEN "invalid"
  ELSE IF ~configSchema(config) THEN "oversized"
  ELSE "valid"

\* The answer of POST /api/test-config to request i with the given body,
\* next to what became of the token exchange of the request ("none" when
\* none was sent) and whether the 10 s timer answered.
TestReplyOf(i, config, success, exchange, timedOut) ==
  [id |-> i, config |-> config, body |-> TestBody(config), success |-> success,
   exchange |-> exchange, timedOut |-> timedOut]

\* POST /api/test-config up to its first pending I/O: a body either schema
\* rejects is answered at once with a failure; for any other a token
\* exchange starts on a service instance of its own.
TestConfig ==
  \E config \in Configs :
    IF TestBody(config) = "valid"
    THEN Start([NewTask EXCEPT !.kind = "test", !.origin = "endpoint", !.testSt = "wait",
                               !.config = config])
    ELSE /\ started' = started + 1
         /\ now' = now + RefreshMs
         /\ testReply' = TestReplyOf(started + 1, config, FALSE, "none", FALSE)
         /\ UNCHANGED << lastUpdate, exchangeRates, rateObjs, cache, tokensIssued,
                         subscribers, readyState, sent, tasks, loaded, lastBuild,
                         lastResponse, server, call, clients, hook, auth, faults, publishLog, lastPublished >>

\* ----------------------------------------------------- settling of a fetch
CacheEntry(data) == [data |-> data, timestamp |-> now]

\* fetchRealTimePricing after its request settled.
PricingSettle(i) ==
  /\ tasks[i].pricingSt = "wait"
  /\ \/ \E data \in PricingResponses(now) :
          /\ cache' = [cache EXCEPT !.pricing = CacheEntry(data)]
          /\ Continue(i, [tasks[i] EXCEPT !.pricingSt = "ok", !.pricing = data],
                      exchangeRates, rateObjs, faults)
     \/ /\ UNCHANGED cache
        /\ Continue(i, [tasks[i] EXCEPT !.pricingSt = "fallback",
                                         !.pricing = getFallbackPricing(now)],
                    exchangeRates, rateObjs, faults + 1)
  /\ UNCHANGED << now, exchangeRates, rateObjs, tokensIssued, readyState, started, loaded, testReply, server, call, clients, hook, auth >>

\* The token cache entry after the catch clause of getAzureAccessToken ran:
\* the clause logs and rethrows.
FailedExchangeEvicts(entry) == Nil

FailedExchange(entry) == entry

\* What the catch clause of fetchUsageData makes of a failure: the call
\* ends normally with the fallback usage.
UsageFailureRaised == [usageSt |-> "rejected", usage |-> << >>]

UsageFailure == [usageSt |-> "fallback", usage |-> getFallbackUsage]

\* getAzureAccessToken after the token request settled, and the caller
\* fetchUsageData: on success the usage query is sent, on failure the catch
\* clause of fetchUsageData returns the fallback usage.
TokenSettle(i) ==
  /\ tasks[i].usageSt = "token"
  /\ \/ \E token \in { [id |-> tokensIssued + 1, exp |-> now + life] :
                          life \in TokenLifetimes } :
          /\ tokensIssued' = tokensIssued + 1
          /\ cache' = [cache EXCEPT !.azure_token = CacheEntry(token)]
          /\ Continue(i, [tasks[i] EXCEPT !.usageSt = "query", !.token = token],
                      exchangeRates, rateObjs, faults)
     \/ /\ UNCHANGED tokensIssued
        /\ cache' = [cache EXCEPT !.azure_token = FailedExchange(cache.azure_token)]
        /\ Continue(i, [tasks[i] EXCEPT !.usageSt = UsageFailure.usageSt,
                                         !.usage = UsageFailure.usage],
                    exchangeRates, rateObjs, faults + 1)
  /\ UNCHANGED << now, exchangeRates, rateObjs, readyState, started, loaded, testReply, server, call, clients, hook, auth >>

\* fetchUsageData after the usage query settled.
UsageSettle(i) ==
  /\ tasks[i].usageSt = "query"
  /\ \/ \E data \in UsageResponses :
          /\ cache' = [cache EXCEPT !.usage = CacheEntry(data)]
          /\ Continue(i, [tasks[i] EXCEPT !.usageSt = "ok", !.usage = data],
                      exchangeRates, rateObjs, faults)
     \/ /\ UNCHANGED cache
        /\ Continue(i, [tasks[i] EXCEPT !.usageSt = UsageFailure.usageSt,
                                         !.usage = UsageFailure.usage],
                    exchangeRates, rateObjs, faults + 1)
  /\ UNCHANGED << now, exchangeRates, rateObjs, tokensIssued, readyState, started, loaded, testReply, server, call, clients, hook, auth >>

\* The object fetchExchangeRates stores on success.
NewRates(r) ==
  [USD_CZK |-> IF r.CZK # 0 THEN r.CZK ELSE DefaultCZK,
   USD_EUR |-> IF r.EUR # 0 THEN r.EUR ELSE DefaultEUR,
   lastUpdate |-> now]

StoreRatesInPlace(heap, r) == [heap EXCEPT ![Len(heap)] = NewRates(r)]

\* The heap after fetchExchangeRates stored the answer r: a new object.
StoreRates(heap, r) == Append(heap, NewRates(r))

FailedRatesStamped(heap) == [heap EXCEPT ![Len(heap)].lastUpdate = now]

\* The heap after the catch clause of fetchExchangeRates ran: it writes
\* nothing.
FailedRates(heap) == heap

\* fetchExchangeRates after its request settled.
RatesSettle(i) ==
  /\ tasks[i].ratesSt = "wait"
  /\ \/ \E r \in RateResponses :
          /\ rateObjs' = StoreRates(rateObjs, r)
          /\ exchangeRates' = Len(rateObjs')
          /\ Continue(i, [tasks[i] EXCEPT !.ratesSt = "ok", !.rates = exchangeRates'],
                      exchangeRates', rateObjs', faults)
     \/ /\ rateObjs' = FailedRates(rateObjs)
        /\ UNCHANGED exchangeRates
        /\ Continue(i, [tasks[i] EXCEPT !.ratesSt = "cached", !.rates = exchangeRates],
                    exchangeRates, rateObjs', faults + 1)
  /\ UNCHANGED << now, cache, tokensIssued, readyState, started, loaded, testReply, server, call, clients, hook, auth >>

\* What POST /api/test-config answers once the token request has settled
\* first in Promise.race.
TestOutcomeAlwaysValid(i, ok) ==
  TestReplyOf(i, tasks[i].config, TRUE, IF ok THEN "ok" ELSE "failed", FALSE)

TestOutcome(i, ok) ==
  TestReplyOf(i, tasks[i].config, ok, IF ok THEN "ok" ELSE "failed", FALSE)

\* POST /api/test-config after the token request of its own instance
\* settled: the answer, unless the timeout has answered already.
TestSettle(i) ==
  /\ tasks[i].testSt \in {"wait", "late"}
  /\ \E ok \in BOOLEAN :
       /\ Continue(i, [tasks[i] EXCEPT !.testSt = IF ok THEN "ok" ELSE "failed"],
                   exchangeRates, rateObjs, IF ok THEN faults ELSE faults + 1)
       /\ testReply' =
            IF tasks[i].testSt = "wait" THEN TestOutcome(i, ok)
            ELSE IF testReply.id = i
            THEN [testReply EXCEPT !.exchange = IF ok THEN "ok" ELSE "failed"]
            ELSE testReply
  /\ UNCHANGED << now, exchangeRates, rateObjs, cache, tokensIssued, readyState, started, loaded,
                  server, call, clients, hook, auth >>

\* The 10 s timer of POST /api/test-config fires before the token request
\* settled: the failure is answered and the request stays pending.
TestTimeout(i) ==
  /\ tasks[i].testSt = "wait"
  /\ tasks' = [tasks EXCEPT ![i].testSt = "late"]
  /\ testReply' = TestReplyOf(i, tasks[i].config, FALSE, "pending", TRUE)
  /\ faults' = faults + 1
  /\ UNCHANGED << now, lastUpdate, exchangeRates, rateObjs, cache, tokensIssued,
                  subscribers, readyState, sent, started, loaded, lastBuild,
                  lastResponse, server, call, clients, hook, auth, publishLog, lastPublished >>

\* ---------------------------------------------------- the client utilities
\* isValidClientSecret, of a secret of the given length.
isValidClientSecretMin(length) == length >= 32

isValidClientSecret(length) == length >= 32 /\ length <= 255

\* validateAzureConfig: the map of the fields in
\* error, and whether it is empty.  A field that is absent, undefined or
\* the empty text is missing.
validateAzureConfig(config) ==
  LET Char(text, k) == SubSeq(text, k, k)
      Hex == {"0", "1", "2", "3", "4", "5", "6", "7", "8", "9",
              "a", "b", "c", "d", "e", "f", "A", "B", "C", "D", "E", "F"}
      isValidUUID(uuid) ==
        /\ Len(uuid) = 36
        /\ \A k \in 1..36 :
             IF k \in {9, 14, 19, 24} THEN Char(uuid, k) = "-"
             ELSE IF k = 15 THEN Char(uuid, k) \in {"1", "2", "3", "4", "5"}
             ELSE IF k = 20 THEN Char(uuid, k) \in {"8", "9", "a", "b", "A", "B"}
             ELSE Char(uuid, k) \in Hex
      Letters == {"g", "h", "i", "j", "k", "l", "m", "n", "o", "p", "q", "r", "s", "t",
                  "u", "v", "w", "x", "y", "z", "G", "H", "I", "J", "K", "L", "M", "N",
                  "O", "P", "Q", "R", "S", "T", "U", "V", "W", "X", "Y", "Z"}
      isValidResourceGroupName(name) ==
        /\ Len(name) >= 1
        /\ Len(name) <= 90
        /\ \A k \in 1..Len(name) :
             Char(name, k) \in Hex \cup Letters \cup {".", "_", "(", ")", "-"}
        /\ Char(name, Len(name)) # "."
      isValidAzureRegion(region) ==
        toLowerCase(region) \in
          {"westeurope", "northeurope", "eastus", "westus", "eastus2", "westus2",
           "centralus", "southcentralus", "westcentralus", "northcentralus",
           "canadacentral", "canadaeast", "brazilsouth", "southafricanorth",
           "eastasia", "southeastasia", "japaneast", "japanwest",
           "australiaeast", "australiasoutheast", "centralindia", "southindia",
           "westindia", "koreacentral", "koreasouth"}
      Missing(field) ==
        \/ field \notin DOMAIN config
        \/ IF field = "clientSecret" THEN config[field] = 0
           ELSE config[field] \in {UNDEFINED, ""}
      Invalid(field) ==
        CASE field \in {"subscriptionId", "tenantId", "clientId"} -> ~isValidUUID(config[field])
          [] field = "clientSecret" -> ~isValidClientSecret(config[field])
          [] field = "resourceGroup" -> ~isValidResourceGroupName(config[field])
          [] field = "region" -> ~isValidAzureRegion(config[field])
      errors == [field \in { f \in {"subscriptionId", "tenantId", "clientId", "clientSecret",
                                    "resourceGroup", "region"} :
                               Missing(f) \/ Invalid(f) } |->
                   IF Missing(field) THEN "required" ELSE "invalid"]
  IN  [isValid |-> DOMAIN errors = {}, errors |-> errors]

\* sanitizeInput: String#trim, then the two replace calls.
sanitizeInput(input) ==
  LET RECURSIVE trimStart(_), trimEnd(_), remove(_, _)
      trimStart(text) ==
        IF text # "" /\ SubSeq(text, 1, 1) = " "
        THEN trimStart(SubSeq(text, 2, Len(text))) ELSE text
      trimEnd(text) ==
        IF text # "" /\ SubSeq(text, Len(text), Len(text)) = " "
        THEN trimEnd(SubSeq(text, 1, Len(text) - 1)) ELSE text
      remove(text, chars) ==
        IF text = "" THEN ""
        ELSE (IF SubSeq(text, 1, 1) \in chars THEN "" ELSE SubSeq(text, 1, 1))
               \o remove(SubSeq(text, 2, Len(text)), chars)
  IN  remove(remove(trimEnd(trimStart(input)), {"<", ">"}), {"'", "\"", ";"})

\* The texts of at most n characters typed into a field of the form.
RECURSIVE Texts(_)
Texts(n) ==
  IF n = 0 THEN {""}
  ELSE Texts(n - 1)
         \cup { text \o c : text \in Texts(n - 1), c \in {" ", "a", "<", ">", "'", "\"", ";"} }

\* The configurations the form hands to validateAzureConfig: each field
\* absent, empty, well-formed or malformed.
AzureConfigs ==
  { [f \in { g \in DOMAIN c : g = "clientSecret" \/ c[g] # UNDEFINED } |-> c[f]] :
      c \in [subscriptionId : {UNDEFINED, "", GoodConfig.subscriptionId, "invalid",
                               "00000000-0000-0000-0000-000000000000"},
             tenantId : {UNDEFINED, GoodConfig.tenantId, "contoso.onmicrosoft.com"},
             clientId : {"", GoodConfig.clientId, "C3E8A1F2-6B4D-4A9E-B7C5-0D1E2F3A4B5C",
                         "c3e8a1f2-6b4d-4a9e-b7c5-0d1e2f3a4b5"},
             clientSecret : {0, 8, 32, 255, 256},
             resourceGroup : {UNDEFINED, "my-resource-group", "rg_(prod).1", "rg.", "my group"},
             region : {UNDEFINED, "westeurope", "eastAsia", "mars"}] }

\* ------------------------------------------------- the synchronous methods
\* The calls of the synchronous methods, each with its arguments.
\* The entries a catalog response is made of: well-formed ones, one of no
\* model, one without a price, and null.
CatalogItems ==
  { Item("gpt-4o Input", 25000), Item("gpt-4o Input", 30000),
    Item("gpt-4o Output", 100000), Item("gpt-4o-mini Input", 1500),
    Item("Standard S0", 100),
    [k \in (DOMAIN Item("", 0)) \ {"retailPrice"} |-> Item("gpt-4o Input", 0)[k]],
    Nil }

\* The rows a usage response is made of.
UsageRows ==
  { Row(100, 1, "gpt-4o Input", "Cognitive Services"),
    Row(200, 2, "gpt-4o Output", "Cognitive Services"),
    Row(50, 3, "gpt-4o Input", "Cognitive Services"),
    Row(40, 2, "gpt-4-turbo Input", "Cognitive Services"),
    Row(27, 4, "gpt-4o Output", "Cognitive Services"),
    Row(70, 1, "gpt-4o Input", "Storage") }

\* The models a merged list is made of, as far as calculateSummary reads
\* them: a name and the usage totals (a model of small cost has no requests).
UsedModels ==
  { [name |-> name, usage |-> [ZeroUsage EXCEPT !.totalCost = u[1], !.inputTokens = u[2],
                                                 !.outputTokens = u[3], !.requests = u[4]]] :
      name \in {"gpt-4o", "gpt-4"},
      u \in { <<0, 0, 0, 0>>, <<3, 350, 150, 0>>, <<200, 23333, 9999, 33>> } }

RECURSIVE Lists(_, _)
Lists(S, n) ==
  IF n = 0 THEN { << >> }
  ELSE Lists(S, n - 1) \cup { Append(xs, x) : xs \in Lists(S, n - 1), x \in S }

Calls ==
  { [fn |-> "extractModel", meterName |-> meterName, productName |-> "Azure OpenAI",
     result |-> Nil] : meterName \in MeterNames(MaxPieces) }
  \cup { [fn |-> "parsePricingData", items |-> items, result |-> Nil] :
           items \in Lists(CatalogItems, MaxItems) }
  \cup { [fn |-> "combineModelData", rows |-> rows, result |-> Nil] :
           rows \in Lists(UsageRows, MaxRows) }
  \cup { [fn |-> "calculateSummary", models |-> models, result |-> Nil] :
           models \in Lists(UsedModels, MaxModels) }
  \cup { [fn |-> "validateAzureConfig", config |-> config, result |-> Nil] :
           config \in AzureConfigs }
  \cup { [fn |-> "sanitizeInput", input |-> input, result |-> Nil] :
           input \in Texts(MaxChars) }

\* What the method called returns.
Result(c) ==
  CASE c.fn = "extractModel" ->
         [pricing |-> extractModelFromMeter(c.meterName, c.productName),
          usage |-> extractModelFromMeterName(c.meterName)]
    [] c.fn = "parsePricingData" ->
         IF \E n \in DOMAIN c.items : IsNil(c.items[n])
         THEN [raised |-> "TypeError"]
         ELSE [raised |-> "none", value |-> parsePricingData(c.items, now)]
    [] c.fn = "combineModelData" ->
         [models |->
            combineModelData(getFallbackPricing(now), parseUsageData(c.rows), now, 3)]
    [] c.fn = "calculateSummary" ->
         [summary |-> calculateSummary(c.models, 3)]
    [] c.fn = "validateAzureConfig" -> validateAzureConfig(c.config)
    [] c.fn = "sanitizeInput" -> [value |-> sanitizeInput(c.input)]

\* The call runs to its end.
Apply ==
  /\ IsNil(call.result)
  /\ call' = [call EXCEPT !.result = Result(call)]
  /\ UNCHANGED << clients, hook, auth, now, lastUpdate, exchangeRates, rateObjs, cache, tokensIssued,
                  subscribers, readyState, sent, started, tasks, loaded, lastBuild,
                  lastResponse, testReply, server, faults, publishLog, lastPublished >>

\* ---------------------------------------------------------- the server
\* new AzureAIRealtimeServer(config): the configuration is validated, then
\* the service is constructed with the validated value and validates it
\* again; either constructor throws on a configuration its schema rejects.
Construct ==
  /\ server.phase = "new"
  /\ server' = IF configSchema(server.config) /\ configSchema(Validated(server.config))
                THEN [phase |-> "constructed", config |-> Validated(server.config)]
                ELSE [server EXCEPT !.phase = "rejected"]
  /\ UNCHANGED << now, lastUpdate, exchangeRates, rateObjs, cache, tokensIssued,
                  subscribers, readyState, sent, started, tasks, loaded, lastBuild,
                  lastResponse, testReply, call, clients, hook, auth, faults, publishLog, lastPublished >>

\* server.start(): the server listens, the WebSocket server is set up, the
\* two cron jobs and the timer of the initial load are scheduled.
Listen ==
  /\ server.phase = "constructed"
  /\ server' = [server EXCEPT !.phase = "listening"]
  /\ UNCHANGED << now, lastUpdate, exchangeRates, rateObjs, cache, tokensIssued,
                  subscribers, readyState, sent, started, tasks, loaded, lastBuild,
                  lastResponse, testReply, call, clients, hook, auth, faults, publishLog, lastPublished >>

\* ------------------------------------------------------------- WebSockets
InitialSendNothing(current, heap, throws) == << >>

\* The send calls the connection handler makes on the new connection.
InitialSend(current, heap, throws) ==
  IF IsNil(current) THEN << >>
  ELSE << [msg |-> JSONStringify(current, heap), ok |-> ~throws, via |-> "connect"] >>

\* wss.on('connection'): subscribe, then send the current snapshot if any.
Connect ==
  /\ readyState' = Append(readyState, "OPEN")
  /\ subscribers' = subscribers \cup {Len(readyState) + 1}
  /\ \E throws \in (IF IsNil(lastUpdate) THEN {FALSE} ELSE BOOLEAN) :
       /\ sent' = Append(sent, InitialSend(lastUpdate, rateObjs, throws))
       /\ faults' = IF throws THEN faults + 1 ELSE faults
  /\ UNCHANGED << now, lastUpdate, exchangeRates, rateObjs, cache, tokensIssued,
                  started, tasks, loaded, lastBuild, lastResponse, testReply, server, call, clients, hook, auth, publishLog, lastPublished >>

\* The connection starts closing: readyState leaves OPEN before any event
\* handler of the service runs.
BeginClose(s) ==
  /\ readyState[s] = "OPEN"
  /\ readyState' = [readyState EXCEPT ![s] = "CLOSING"]
  /\ UNCHANGED << now, lastUpdate, exchangeRates, rateObjs, cache, tokensIssued,
                  subscribers, sent, started, tasks, loaded, lastBuild, lastResponse, testReply, server, call, clients, hook, auth,
                  faults, publishLog, lastPublished >>

\* ws.on('close')
CloseEvent(s) ==
  /\ readyState[s] = "CLOSING"
  /\ readyState' = [readyState EXCEPT ![s] = "CLOSED"]
  /\ subscribers' = subscribers \ {s}
  /\ UNCHANGED << now, lastUpdate, exchangeRates, rateObjs, cache, tokensIssued,
                  sent, started, tasks, loaded, lastBuild, lastResponse, testReply, server, call, clients, hook, auth, faults, publishLog,
                  lastPublished >>

\* ws.on('error'): the connection is torn down with the error.
ErrorEvent(s) ==
  /\ readyState[s] = "OPEN"
  /\ readyState' = [readyState EXCEPT ![s] = "CLOSING"]
  /\ subscribers' = subscribers \ {s}
  /\ UNCHANGED << now, lastUpdate, exchangeRates, rateObjs, cache, tokensIssued,
                  sent, started, tasks, loaded, lastBuild, lastResponse, testReply, server, call, clients, hook, auth, faults, publishLog,
                  lastPublished >>

\* ------------------------------------------------------ the browser client
\* The variables of the server side.
service == << now, lastUpdate, exchangeRates, rateObjs, cache, tokensIssued,
              subscribers, readyState, sent, started, tasks, loaded, lastBuild,
              lastResponse, testReply, server, call, faults, publishLog, lastPublished >>

\* connectWebSocket: this.ws is a new socket with the four handlers; the
\* sockets that have closed are no longer referred to.
connectWebSocket(client) ==
  [client EXCEPT
     !.sockets = Append(SelectSeq(client.sockets, LAMBDA state : state # "CLOSED"),
                        "CONNECTING")]

\* The onclose handler of socket k of a client.
oncloseTwice(client, k) ==
  [client EXCEPT !.sockets[k] = "CLOSED",
                 !.status = "disconnected",
                 !.timers = client.timers \o << ReconnectSeconds, ReconnectSeconds >>]

onclose(client, k) ==
  [client EXCEPT !.sockets[k] = "CLOSED",
                 !.status = "disconnected",
                 !.timers = Append(client.timers, ReconnectSeconds)]

\* DOMContentLoaded: a client is constructed and its init() connects.  The
\* server is within reach of the page, or not.
PageLoad ==
  /\ \E online \in BOOLEAN :
       clients' = Append(clients, connectWebSocket([sockets |-> << >>, timers |-> << >>,
                                                    status |-> "none", online |-> online]))
  /\ UNCHANGED << service, hook, auth >>

\* The connection of a socket is established: onopen.
ClientOpen(c) ==
  /\ c \in DOMAIN clients
  /\ clients[c].online
  /\ \E k \in DOMAIN clients[c].sockets :
       /\ clients[c].sockets[k] = "CONNECTING"
       /\ clients' = [clients EXCEPT ![c].sockets[k] = "OPEN", ![c].status = "connected"]
  /\ UNCHANGED << service, hook, auth >>

\* A socket closes: an attempt fails while the server is out of reach, or
\* an open connection ends.  The error event of a failure and the close
\* event are fired one after the other; onerror only sets the status that
\* onclose overwrites.
ClientClose(c) ==
  /\ c \in DOMAIN clients
  /\ \E k \in DOMAIN clients[c].sockets :
       /\ \/ clients[c].sockets[k] = "CONNECTING" /\ ~clients[c].online
          \/ clients[c].sockets[k] = "OPEN"
       /\ clients' = [clients EXCEPT ![c] = onclose(clients[c], k)]
  /\ UNCHANGED << service, hook, auth >>

\* The reconnection timer that is due fires: connectWebSocket.
ClientTimer(c) ==
  /\ c \in DOMAIN clients
  /\ clients[c].timers # << >>
  /\ Head(clients[c].timers) = 0
  /\ clients' = [clients EXCEPT
                   ![c] = connectWebSocket([clients[c] EXCEPT !.timers = Tail(@)])]
  /\ UNCHANGED << service, hook, auth >>

\* The server gets out of reach of a page, or within reach again.
ClientNetwork(c) ==
  /\ c \in DOMAIN clients
  /\ clients' = [clients EXCEPT ![c].online = ~@]
  /\ UNCHANGED << service, hook, auth >>

\* A second passes in the browsers: no timer is due, and every pending
\* timer is a second closer to firing.
Second ==
  /\ \E c \in DOMAIN clients : clients[c].timers # << >>
  /\ \A c \in DOMAIN clients : \A k \in DOMAIN clients[c].timers : clients[c].timers[k] > 0
  /\ clients' = [c \in DOMAIN clients |->
                   [clients[c] EXCEPT !.timers = [k \in DOMAIN @ |-> @[k] - 1]]]
  /\ UNCHANGED << service, hook, auth >>

\* ------------------------------------------------ the useDashboardData hook
\* The state of the hook of a mounted dashboard: the five useState values,
\* the two parameters of the hook, the requests it has in flight (each named
\* by the number of the event at which it started, which is also the
\* response it asks for) and the number of events handled so far, which is
\* the reading of the browser's clock.

\* fetchDashboardData up to its await: nothing but an error for a dashboard
\* that is not configured, else the request is sent.
fetchDashboardData(h) ==
  LET at == h.events + 1
  IN  IF ~h.isConfigured
      THEN [h EXCEPT !.events = at,
                     !.error = [message |-> "not configured"],
                     !.connectionStatus = "error"]
      ELSE [h EXCEPT !.events = at,
                     !.loading = TRUE,
                     !.error = Nil,
                     !.connectionStatus = "connecting",
                     !.fetches = Append(@, at)]

\* The rest of fetchDashboardData, after the response of request k of the
\* fetches in flight: the try block to its end, or the catch block, and
\* the finally block.
fetchSettledClearing(h, k, outcome) ==
  LET at   == h.events + 1
      rest == SubSeq(h.fetches, 1, k - 1) \o SubSeq(h.fetches, k + 1, Len(h.fetches))
  IN  IF outcome = "ok"
      THEN [h EXCEPT !.events = at, !.fetches = rest,
                     !.dashboardData = [response |-> h.fetches[k]],
                     !.lastUpdate = [time |-> at],
                     !.connectionStatus = "connected",
                     !.error = Nil,
                     !.loading = FALSE]
      ELSE [h EXCEPT !.events = at, !.fetches = rest,
                     !.dashboardData = Nil,
                     !.error = [message |-> outcome],
                     !.connectionStatus = "error",
                     !.loading = FALSE]

fetchSettled(h, k, outcome) ==
  LET at   == h.events + 1
      rest == SubSeq(h.fetches, 1, k - 1) \o SubSeq(h.fetches, k + 1, Len(h.fetches))
  IN  IF outcome = "ok"
      THEN [h EXCEPT !.events = at, !.fetches = rest,
                     !.dashboardData = [response |-> h.fetches[k]],
                     !.lastUpdate = [time |-> at],
                     !.connectionStatus = "connected",
                     !.error = Nil,
                     !.loading = FALSE]
      ELSE [h EXCEPT !.events = at, !.fetches = rest,
                     !.error = [message |-> outcome],
                     !.connectionStatus = "error",
                     !.loading = FALSE]

\* The effects that run when the hook is first rendered and whenever
\* isConfigured has changed: the auto-refresh effect fetches at once, the
\* effect on isConfigured empties the state of an unconfigured dashboard.
hookEffects(h) ==
  IF h.isConfigured
  THEN IF h.autoRefresh THEN fetchDashboardData(h) ELSE h
  ELSE [h EXCEPT !.connectionStatus = "disconnected",
                 !.dashboardData = Nil,
                 !.error = Nil]

\* The dashboard is mounted: the initial state of the hook and its effects.
HookMount ==
  /\ hook = Nil
  /\ \E isConfigured \in BOOLEAN, autoRefresh \in BOOLEAN :
       hook' = hookEffects([isConfigured |-> isConfigured, autoRefresh |-> autoRefresh,
                            dashboardData |-> Nil, loading |-> FALSE, error |-> Nil,
                            lastUpdate |-> Nil, connectionStatus |-> "disconnected",
                            fetches |-> << >>, events |-> 0])
  /\ UNCHANGED << service, clients, auth >>

\* fetchDashboardData is called: by the refresh interval, by the focus
\* handler, by the online handler, or by the user of refetch.
HookFetch(trigger) ==
  /\ hook # Nil
  /\ CASE trigger = "interval" -> hook.isConfigured /\ hook.autoRefresh
       [] trigger = "focus"    -> /\ hook.isConfigured /\ hook.autoRefresh
                                  /\ hook.connectionStatus # "connecting"
       [] trigger = "online"   -> hook.isConfigured /\ hook.autoRefresh
       [] trigger = "refetch"  -> TRUE
  /\ hook' = fetchDashboardData(IF trigger = "online"
                                THEN [hook EXCEPT !.connectionStatus = "reconnecting"]
                                ELSE hook)
  /\ UNCHANGED << service, clients, auth >>

\* A request in flight ends: with a valid response ("ok"), a rejected
\* fetch(), a response whose ok is false, a body with success false or
\* without data, or a body that is no JSON or has no models array.
HookSettle(k, outcome) ==
  /\ hook # Nil
  /\ k \in DOMAIN hook.fetches
  /\ hook' = fetchSettled(hook, k, outcome)
  /\ UNCHANGED << service, clients, auth >>

\* The dashboard is rendered with another isConfigured.
HookConfigure ==
  /\ hook # Nil
  /\ hook' = hookEffects([hook EXCEPT !.isConfigured = ~@])
  /\ UNCHANGED << service, clients, auth >>

\* The browser goes offline: handleOffline.
HookOffline ==
  /\ hook # Nil
  /\ hook' = [hook EXCEPT !.events = @ + 1,
                          !.connectionStatus = "error",
                          !.error = [message |-> "offline"]]
  /\ UNCHANGED << service, clients, auth >>

\* ------------------------------------------- the authentication manager
\* A manager is a record of its config, its failedAttempts map (a function
\* from the IP addresses that have a record) and the answer of the last
\* request that went through one of its middlewares: next() or a status.
\* hashApiKey is taken to be injective, so that two hashes are equal when
\* the keys are.

\* isLockedOut(ip) at time t: its answer, and the map it leaves.
isLockedOutForever(failedAttempts, ip, t) ==
  IF ip \notin DOMAIN failedAttempts
  THEN [locked |-> FALSE, failedAttempts |-> failedAttempts]
  ELSE [locked |-> failedAttempts[ip].count >= maxFailedAttempts,
        failedAttempts |-> failedAttempts]

isLockedOut(failedAttempts, ip, t) ==
  IF ip \notin DOMAIN failedAttempts
  THEN [locked |-> FALSE, failedAttempts |-> failedAttempts]
  ELSE IF t - failedAttempts[ip].lastAttempt > lockoutDuration
       THEN [locked |-> FALSE,
             failedAttempts |-> [i \in DOMAIN failedAttempts \ { ip } |-> failedAttempts[i]]]
       ELSE [locked |-> failedAttempts[ip].count >= maxFailedAttempts,
             failedAttempts |-> failedAttempts]

\* recordFailedAttempt(ip) at time t: the map it leaves.
recordFailedAttempt(failedAttempts, ip, t) ==
  LET attempts == IF ip \in DOMAIN failedAttempts THEN failedAttempts[ip]
                  ELSE [count |-> 0, lastAttempt |-> 0]
  IN  [i \in DOMAIN failedAttempts \cup { ip } |->
         IF i = ip THEN [count |-> attempts.count + 1, lastAttempt |-> t]
         ELSE failedAttempts[i]]

\* The middleware that authenticateApiKey() returns, for a request that
\* arrives at time t.  The key of a request is what follows 'Bearer ' in
\* its Authorization header, else its x-api-key header; an empty string is
\* no key.
authenticateApiKey(m, req, t) ==
  LET lockout    == isLockedOut(m.failedAttempts, req.ip, t)
      checked    == [m EXCEPT !.failedAttempts = lockout.failedAttempts]
      authHeader == req.headers.authorization
      apiKey     == IF /\ authHeader # UNDEFINED /\ Len(authHeader) >= 7
                       /\ SubSeq(authHeader, 1, 7) = "Bearer "
                    THEN SubSeq(authHeader, 8, Len(authHeader))
                    ELSE req.headers.xApiKey
  IN  IF req.path \in { "/api/health", "/api/metrics", "/" }
      THEN [m EXCEPT !.reply = [next |-> TRUE]]
      ELSE IF lockout.locked
      THEN [checked EXCEPT !.reply = [status |-> 429]]
      ELSE IF m.config.apiKey = UNDEFINED
      THEN [checked EXCEPT !.reply = [next |-> TRUE]]
      ELSE IF apiKey \in { UNDEFINED, "" }
      THEN [checked EXCEPT !.failedAttempts = recordFailedAttempt(@, req.ip, t),
                           !.reply = [status |-> 401, error |-> "API key required"]]
      ELSE IF apiKey # m.config.apiKey
      THEN [checked EXCEPT !.failedAttempts = recordFailedAttempt(@, req.ip, t),
                           !.reply = [status |-> 401, error |-> "Invalid API key"]]
      ELSE [checked EXCEPT !.failedAttempts = [i \in DOMAIN @ \ { req.ip } |-> @[i]],
                           !.reply = [next |-> TRUE]]

\* The middleware that authenticateJWT() returns; req.verified is the
\* outcome of jwt.verify for the token of the request.
authenticateJWT(m, req, t) ==
  LET authHeader == req.headers.authorization
      token      == IF /\ authHeader # UNDEFINED /\ Len(authHeader) >= 7
                       /\ SubSeq(authHeader, 1, 7) = "Bearer "
                    THEN SubSeq(authHeader, 8, Len(authHeader))
                    ELSE ""
  IN  IF token = ""
      THEN [m EXCEPT !.reply = [status |-> 401, error |-> "JWT token required"]]
      ELSE IF req.verified
      THEN [m EXCEPT !.reply = [next |-> TRUE]]
      ELSE [m EXCEPT !.failedAttempts = recordFailedAttempt(@, req.ip, t),
                     !.reply = [status |-> 401, error |-> "Invalid or expired token"]]

\* new AuthenticationManager(config), with an API key configured or none.
AuthNew(apiKey) ==
  /\ auth = Nil
  /\ auth' = [config |-> [apiKey |-> apiKey], failedAttempts |-> << >>, reply |-> Nil]
  /\ UNCHANGED << service, clients, hook >>

\* A request goes through one of the two middlewares of the manager.
AuthRequest(req) ==
  /\ auth # Nil
  /\ auth' = IF req.middleware = "authenticateJWT"
             THEN authenticateJWT(auth, req, now)
             ELSE authenticateApiKey(auth, req, now)
  /\ UNCHANGED << service, clients, hook >>

\* Time passes between two requests.
AuthWait(ms) ==
  /\ now' = now + ms
  /\ UNCHANGED << lastUpdate, exchangeRates, rateObjs, cache, tokensIssued,
                  subscribers, readyState, sent, started, tasks, loaded, lastBuild,
                  lastResponse, testReply, server, call, clients, hook, auth, faults,
                  publishLog, lastPublished >>

\* -------------------------------------------------------------- the clock
\* Time passes while the service is idle or waits for an answer.
Advance ==
  /\ now' = now + ClockStep
  /\ UNCHANGED << lastUpdate, exchangeRates, rateObjs, cache, tokensIssued,
                  subscribers, readyState, sent, started, tasks, loaded, lastBuild,
                  lastResponse, testReply, server, call, clients, hook, auth, faults, publishLog, lastPublished >>

\* The times the clock was put forward so far.
Advances == (now - StartTime - started * RefreshMs) \div ClockStep

\* ------------------------------------------------------- specifications
\* The identity source issues tokens of the default lifetime, one hour.
HourTokens ==
  IsNil(cache'.azure_token)
    \/ cache'.azure_token.data.exp = cache'.azure_token.timestamp + HourMs

\* The bodies posted to the configuration test are configurations both
\* schemas accept.
FormedTests == IsNil(testReply') \/ TestBody(testReply'.config) = "valid"

Settle ==
  \/ \E i \in Tasks : PricingSettle(i)
  \/ \E i \in Tasks : TokenSettle(i)
  \/ \E i \in Tasks : UsageSettle(i)
  \/ \E i \in Tasks : RatesSettle(i)

\* The aggregator under its three callers: the refresh timer, the pull
\* endpoint and the initial load, in any overlap.
Next ==
  /\ \/ started < MaxTasks /\ DashboardTick
     \/ started < MaxTasks /\ DashboardPull
     \/ started < MaxTasks /\ InitialLoad
     \/ Settle
  /\ faults' <= MaxFaults
  /\ HourTokens

Spec == Init /\ [][Next]_vars

\* The broadcast hub: connections come and go while aggregations started by
\* the refresh timer publish, each one returning before the next tick.
NextHub ==
  /\ \/ started + Len(readyState) < HubOps /\ Tasks = {} /\ DashboardTick
     \/ Settle
     \/ started + Len(readyState) < HubOps /\ Connect
     \/ \E s \in Sockets : BeginClose(s)
     \/ \E s \in Sockets : CloseEvent(s)
     \/ \E s \in Sockets : ErrorEvent(s)
  /\ faults' <= MaxFaults
  /\ HourTokens

SpecHub == Init /\ [][NextHub]_vars

\* The aggregator under the refresh timer alone; ticks overlap freely.
NextTicks ==
  /\ \/ started < MaxTasks /\ DashboardTick
     \/ Settle
  /\ faults' <= MaxFaults
  /\ HourTokens

SpecTicks == Init /\ [][NextTicks]_vars

\* Every operation that runs beside the aggregator: the exchange-rate timer,
\* the single-source endpoints, the configuration test and the connection
\* events, each invocation returning before the next starts.
NextFrame ==
  /\ \/ /\ started + Len(readyState) < FrameOps
        /\ Tasks = {}
        /\ \/ DashboardTick
           \/ DashboardPull
           \/ PricingEndpoint
           \/ UsageEndpoint
           \/ RatesEndpoint
           \/ RatesTick
           \/ TestConfig
     \/ Settle
     \/ \E i \in Tasks : TestSettle(i)
     \/ started + Len(readyState) < FrameOps /\ Connect
     \/ \E s \in Sockets : BeginClose(s)
     \/ \E s \in Sockets : CloseEvent(s)
     \/ \E s \in Sockets : ErrorEvent(s)
  /\ faults' <= MaxFaults
  /\ HourTokens
  /\ FormedTests

SpecFrame == Init /\ [][NextFrame]_vars

\* The server from its start on: the initial load, refresh ticks once it has
\* returned and connections, with sources that may fail on every call.  Every request
\* sent is answered or fails in the end, the timer of the initial load
\* fires, and the merge works on the well-formed values the fetch methods
\* return, so it does not raise.
LiveSettle ==
  /\ Settle
  /\ HourTokens
  /\ ~IsNil(lastBuild') => lastBuild'.outcome = "success"

NextLive ==
  \/ InitialLoad
  \/ started + Len(readyState) < LiveOps + 1 /\ loaded /\ Tasks = {} /\ DashboardTick
  \/ LiveSettle
  \/ started + Len(readyState) < LiveOps /\ Connect
  \/ \E s \in Sockets : BeginClose(s)
  \/ \E s \in Sockets : CloseEvent(s)

SpecLive ==
  /\ Init
  /\ [][NextLive]_vars
  /\ WF_vars(InitialLoad)
  /\ WF_vars(LiveSettle)

\* The token cache over time: usage fetches of the usage endpoint and of
\* aggregations, one invocation after the other with time passing in
\* between, and tokens of either lifetime.
NextToken ==
  /\ \/ started < TokenOps /\ Tasks = {} /\ UsageEndpoint
     \/ started < TokenOps /\ Tasks = {} /\ DashboardTick
     \/ Settle
     \/ Advances < MaxAdvances /\ Tasks = {} /\ Advance
  /\ faults' <= MaxFaults

SpecToken == Init /\ [][NextToken]_vars

\* The configuration test next to the usage endpoint of the running service:
\* tests in any overlap, each with its 10 s timer, while the service
\* exchanges and caches tokens of its own.
NextTest ==
  /\ \/ started < TestOps /\ TestConfig
     \/ started < TestOps /\ UsageEndpoint
     \/ Settle
     \/ \E i \in Tasks : TestSettle(i)
     \/ \E i \in Tasks : TestTimeout(i)
  /\ faults' <= MaxFaults
  /\ HourTokens

SpecTest == Init /\ [][NextTest]_vars

\* The two cron jobs next to each other, over fetches that settle late or
\* never: a tick of one timer fires while calls the other timer started are
\* in flight.
NextTimers ==
  /\ \/ /\ started < TimerOps
        /\ \A i \in Tasks : tasks[i].kind # "dashboard"
        /\ DashboardTick
     \/ /\ started < TimerOps
        /\ \A i \in Tasks : tasks[i].kind # "rates"
        /\ RatesTick
     \/ Settle
  /\ faults' <= MaxFaults
  /\ HourTokens

SpecTimers == Init /\ [][NextTimers]_vars

\* The synchronous methods of the service, each called once on every
\* argument.
InitCalls ==
  /\ Constructed
  /\ server = [phase |-> "listening", config |-> Validated(GoodConfig)]
  /\ call \in Calls

SpecCalls == InitCalls /\ [][Apply]_vars

\* The server from the construction on, for every configuration: the
\* timers and routes exist once start() has run.
InitConfig ==
  /\ Constructed
  /\ server \in { [phase |-> "new", config |-> config] : config \in Configs }
  /\ call = Nil

NextConfig ==
  /\ \/ Construct
     \/ Listen
     \/ /\ server.phase = "listening"
        /\ started < ConfigOps
        /\ Tasks = {}
        /\ \/ InitialLoad
           \/ DashboardTick
           \/ RatesTick
           \/ TestConfig
     \/ Settle
     \/ \E i \in Tasks : TestSettle(i)
     \/ \E i \in Tasks : TestTimeout(i)
  /\ faults' <= MaxFaults
  /\ HourTokens

SpecConfig == InitConfig /\ [][NextConfig]_vars

\* The pages of the dashboard over time: their sockets open, close and are
\* replaced by the reconnection timers while the server comes and goes.  A
\* timer that is due fires, a second that can pass passes, and a connection
\* that can be established is.
NextClient ==
  /\ \/ Len(clients) < MaxClients /\ PageLoad
     \/ \E c \in DOMAIN clients : ClientOpen(c)
     \/ \E c \in DOMAIN clients : ClientClose(c)
     \/ \E c \in DOMAIN clients : ClientTimer(c)
     \/ \E c \in DOMAIN clients : ClientNetwork(c)
     \/ Second
  /\ \A c \in DOMAIN clients' :
       /\ Len(clients'[c].sockets) <= MaxSockets
       /\ Len(clients'[c].timers) <= MaxSockets

SpecClient ==
  /\ Init
  /\ [][NextClient]_vars
  /\ WF_vars(Second)
  /\ \A c \in 1..MaxClients : WF_vars(ClientTimer(c)) /\ WF_vars(ClientOpen(c))

\* The hook of one dashboard, through HookOps events and with at most
\* MaxFetches requests in flight.
NextHook ==
  /\ \/ HookMount
     \/ \E trigger \in { "interval", "focus", "online", "refetch" } : HookFetch(trigger)
     \/ \E k \in 1..MaxFetches,
           outcome \in { "ok", "network error", "status", "unsuccessful", "malformed" } :
          HookSettle(k, outcome)
     \/ HookConfigure
     \/ HookOffline
  /\ hook'.events <= HookOps
  /\ Len(hook'.fetches) <= MaxFetches

SpecHook == Init /\ [][NextHook]_vars

\* One authentication manager and the requests of two addresses, while
\* the clock is put forward AuthWaits times, by the lockout duration or by
\* a millisecond more.  The JWT middleware reads neither the path nor the
\* x-api-key header of a request.
NextAuth ==
  /\ \/ \E apiKey \in { UNDEFINED, "key" } : AuthNew(apiKey)
     \/ \E ip \in { "10.0.0.1", "10.0.0.2" },
           path \in { "/api/health", "/api/dashboard" },
           authorization \in { UNDEFINED, "Bearer key", "Bearer other" },
           xApiKey \in { UNDEFINED, "key" },
           middleware \in { "authenticateApiKey", "authenticateJWT" },
           verified \in BOOLEAN :
          /\ middleware = "authenticateApiKey" => ~verified
          /\ middleware = "authenticateJWT" => path = "/api/dashboard" /\ xApiKey = UNDEFINED
          /\ AuthRequest([ip |-> ip, path |-> path, middleware |-> middleware,
                          verified |-> verified,
                          headers |-> [authorization |-> authorization,
                                       xApiKey |-> xApiKey]])
     \/ \E ms \in { lockoutDuration, lockoutDuration + 1 } : auth # Nil /\ AuthWait(ms)
  /\ now' <= StartTime + AuthWaits * (lockoutDuration + 1)
  /\ \A ip \in DOMAIN auth'.failedAttempts :
       auth'.failedAttempts[ip].count <= maxFailedAttempts + 1

SpecAuth == Init /\ [][NextAuth]_vars

\* ------------------------------------------------------------------ claims
\* The aggregations in flight that the refresh timer started.
TickTasks == { i \in Tasks : tasks[i].kind = "dashboard" /\ tasks[i].origin = "tick" }

\* C1: aggregations started by the refresh timer never overlap: at every
\* moment at most one getDashboardData call started by a tick is in flight.
C1_AtMostOneTickInFlight == Cardinality(TickTasks) <= 1

\* C2: snapshots are published in tick order: of two aggregations started by
\* ticks that both published, the one whose tick came first published first.
C2_PublishInTickOrder ==
  \A j, k \in DOMAIN publishLog :
    (j < k /\ publishLog[j].origin = "tick" /\ publishLog[k].origin = "tick")
      => publishLog[j].id < publishLog[k].id

\* C4: when the merge or summary computation of an aggregation has raised,
\* the current snapshot is the one that was current when that aggregation
\* started.
C4_FailedBuildKeepsSnapshotFromStart ==
  (~IsNil(lastBuild) /\ lastBuild.outcome = "error")
    => lastUpdate = lastBuild.before

SummaryFields ==
  {"totalCost", "totalTokens", "totalRequests", "avgCostPerRequest", "topModel", "peakHour"}

\* C5: every body the pull endpoint answers with carries a models list and
\* all summary fields of one completed aggregation; after a failed build it
\* is the snapshot published last.
C5_PullServesCompleteSnapshot ==
  ~IsNil(lastResponse)
    => /\ SummaryFields \subseteq DOMAIN lastResponse.summary
       /\ (lastBuild.origin = "pull" /\ lastBuild.outcome = "error"
             /\ ~IsNil(lastPublished))
            => lastResponse = [success |-> TRUE] @@ lastPublished

\* The usage the fallback data holds for a model.
FallbackUsageFor(name) ==
  IF name \in DOMAIN getFallbackUsage THEN getFallbackUsage[name] ELSE ZeroUsage

\* C3: an aggregation whose usage query or token exchange failed has
\* published a snapshot with status success and one entry per priced model,
\* each carrying the pricing of that cycle unchanged and the fallback usage;
\* summary.totalCost is the sum of the fallback totalCost over those models
\* and the exchange rates are the ones that cycle fetched.
C3_UsageFailureStillPublishes ==
  (~IsNil(lastBuild) /\ lastBuild.usageSt = "fallback" /\ lastBuild.outcome = "success")
    => /\ ~IsNil(lastUpdate)
       /\ lastUpdate.status = "success"
       /\ Len(lastUpdate.models) = Len(lastBuild.pricing)
       /\ \A k \in DOMAIN lastUpdate.models :
            LET m == lastUpdate.models[k]
                p == lastBuild.pricing[k]
            IN  /\ [f \in DOMAIN p |-> m[f]] = p
                /\ m.usage = FallbackUsageFor(p.name)
       /\ lastUpdate.summary.totalCost
            = Sum([k \in DOMAIN lastBuild.pricing |->
                     FallbackUsageFor(lastBuild.pricing[k].name).totalCost])
       /\ lastUpdate.exchangeRates = lastBuild.rates
       /\ publishLog # << >>
       /\ publishLog[Len(publishLog)].id = lastBuild.id
       /\ lastPublished = JSONStringify(lastUpdate, rateObjs)

C3_Witness ==
  /\ ~IsNil(lastBuild)
  /\ lastBuild.usageSt = "fallback"
  /\ lastBuild.outcome = "success"
  /\ lastBuild.pricingSt = "ok"
  /\ lastBuild.ratesSt = "ok"
  /\ \E s \in subscribers : sent[s] # << >> /\ sent[s][Len(sent[s])].msg = lastPublished

\* The broadcast message carrying the snapshot just published.
Delivery(message, ok) == [msg |-> message, ok |-> ok, via |-> "broadcast"]

\* C6: in one broadcast every subscriber that is open gets one send of the
\* snapshot, whatever happens to the others, and nobody else gets any; the
\* subscribers left are exactly the open ones whose send succeeded.
C6_BroadcastDelivery ==
  [][publishLog' # publishLog
       => /\ \A s \in Sockets :
               IF s \in subscribers /\ readyState[s] = "OPEN"
               THEN \E ok \in BOOLEAN :
                      sent'[s] = Append(sent[s], Delivery(lastPublished', ok))
               ELSE sent'[s] = sent[s]
          /\ subscribers'
               = { s \in subscribers :
                     /\ readyState[s] = "OPEN"
                     /\ sent'[s] = Append(sent[s], Delivery(lastPublished', TRUE)) }]_vars

C6_Witness ==
  \E s, r \in Sockets :
    /\ s \in subscribers
    /\ r \notin subscribers
    /\ sent[s] = << Delivery(lastPublished, TRUE) >>
    /\ sent[r] = << Delivery(lastPublished, FALSE) >>

\* C7 as stated: at a publish every subscriber in the subscriber set
\* receives exactly one message, the snapshot published.
C7_EverySubscriberReceives ==
  [][publishLog' # publishLog
       => \A s \in subscribers :
            sent'[s] = Append(sent[s], Delivery(lastPublished', TRUE))]_vars

\* What was sent on connection s in the step, and what of it arrived.
NewlySent(s) == SubSeq(sent'[s], Len(sent[s]) + 1, Len(sent'[s]))
Received(msgs) == SelectSeq(msgs, LAMBDA e : e.ok)

\* C7 amended: at a publish a subscriber whose connection is open and whose
\* send does not throw receives exactly one message and it is the snapshot
\* now current; a subscriber whose connection is no longer open receives
\* none; and once a connection is unsubscribed nothing is sent to it again,
\* at a publish or otherwise.
C7_OpenSubscriberReceivesOnce ==
  [][/\ publishLog' # publishLog
        => /\ lastPublished' = JSONStringify(lastUpdate', rateObjs')
           /\ \A s \in subscribers :
                /\ Len(sent'[s]) >= Len(sent[s])
                /\ SubSeq(sent'[s], 1, Len(sent[s])) = sent[s]
                /\ Len(NewlySent(s)) = (IF readyState[s] = "OPEN" THEN 1 ELSE 0)
                /\ \A k \in DOMAIN NewlySent(s) : NewlySent(s)[k].msg = lastPublished'
                /\ s \in subscribers'
                     => Received(NewlySent(s)) = << Delivery(lastPublished', TRUE) >>
     /\ \A s \in Sockets \ subscribers : sent'[s] = sent[s] /\ s \notin subscribers']_vars

C7_Witness ==
  \E s, r \in Sockets :
    /\ s \in subscribers
    /\ sent[s] = << Delivery(lastPublished, TRUE) >>
    /\ r < s
    /\ readyState[r] = "CLOSED"
    /\ sent[r] = << >>

\* C8: the step that accepts a connection sends the snapshot current at
\* that moment on it, once, and publishes nothing; when there is no current
\* snapshot yet it sends nothing.
C8_ConnectSendsCurrent ==
  [][Len(readyState') = Len(readyState) + 1
       => LET s == Len(readyState')
          IN  /\ s \in subscribers'
              /\ publishLog' = publishLog
              /\ lastUpdate' = lastUpdate
              /\ IF IsNil(lastUpdate)
                 THEN sent'[s] = << >>
                 ELSE /\ Len(sent'[s]) = 1
                      /\ sent'[s][1].msg = JSONStringify(lastUpdate, rateObjs)
                      /\ sent'[s][1].via = "connect"]_vars

C8_Witness ==
  \E s, r \in Sockets :
    /\ r < s
    /\ sent[r] = << >>
    /\ Len(sent[s]) = 1
    /\ sent[s][1] = [msg |-> lastPublished, ok |-> TRUE, via |-> "connect"]

\* C9: in every state the current snapshot, with the exchange rates embedded
\* in it, equals field for field the snapshot published last; there is none
\* while nothing has been published.
C9_CurrentEqualsLastPublished ==
  IF IsNil(lastPublished)
  THEN IsNil(lastUpdate)
  ELSE ~IsNil(lastUpdate) /\ JSONStringify(lastUpdate, rateObjs) = lastPublished

C9_Witness ==
  /\ ~IsNil(lastUpdate)
  /\ exchangeRates # lastUpdate.exchangeRates
  /\ rateObjs[exchangeRates].lastUpdate > rateObjs[lastUpdate.exchangeRates].lastUpdate

\* C10: the current snapshot is null exactly while no aggregation has
\* completed successfully; once set it is never null again; and it always
\* has status success.
C10_NullUntilFirstSuccess ==
  /\ [](IsNil(lastUpdate) <=> publishLog = << >>)
  /\ [][~IsNil(lastUpdate) => ~IsNil(lastUpdate')]_vars
  /\ [](~IsNil(lastUpdate) => lastUpdate.status = "success")

C10_Witness ==
  /\ ~IsNil(lastUpdate)
  /\ ~IsNil(lastBuild)
  /\ lastBuild.outcome = "error"

StartedAt(i) == StartTime + i * RefreshMs

\* A snapshot is stale at t when it was built the cache duration before t or
\* earlier.
Stale(snapshot, t) ==
  \A k \in 0..((CacheDurationMs \div RefreshMs) - 1) :
    snapshot.lastUpdate # ToISOString(t - k * RefreshMs)

\* C12: a pull starts fetches only when there is no current snapshot or the
\* current one is stale: no aggregation started by the pull endpoint is in
\* flight that found a snapshot younger than the cache duration.
C12_PullRebuildsOnlyWhenStale ==
  \A i \in Tasks :
    tasks[i].origin = "pull"
      => IsNil(tasks[i].before) \/ Stale(tasks[i].before, StartedAt(i))

\* The safety margin of a token: a tenth of its lifetime.
SafetyMargin(entry) == (entry.data.exp - entry.timestamp) \div 10

\* C13: a call of getAzureAccessToken answers with the cached token, without
\* an exchange, exactly when a token is cached and the instant of the call
\* lies before its expiry less the safety margin; otherwise it starts an
\* exchange.
C13_CachedTokenExactlyWhileValid ==
  [][\A i \in Tasks' \ Tasks :
       tasks'[i].usageSt # "skip"
         => LET valid == /\ ~IsNil(cache.azure_token)
                         /\ now' < cache.azure_token.data.exp
                                     - SafetyMargin(cache.azure_token)
            IN  IF valid
                THEN tasks'[i].usageSt = "query"
                       /\ tasks'[i].token = cache.azure_token.data
                ELSE tasks'[i].usageSt = "token" /\ IsNil(tasks'[i].token)]_vars

\* C14: when the exchange a usage fetch waits for fails, no token is issued
\* or handed to the fetch, the token cache entry stays as it was, even when
\* it holds an expired token, and the fetch ends without a usage query.
C14_FailedExchangeReturnsNoToken ==
  [][\A i \in Tasks :
       (/\ tasks[i].usageSt = "token"
        /\ tokensIssued' = tokensIssued
        /\ (i \notin Tasks' \/ tasks'[i].usageSt # "token"))
         => /\ cache'.azure_token = cache.azure_token
            /\ cache'.usage = cache.usage
            /\ faults' > faults
            /\ i \in Tasks'
                 => /\ tasks'[i].usageSt \notin {"query", "ok"}
                    /\ IsNil(tasks'[i].token)
            /\ i \notin Tasks'
                 => (tasks[i].kind = "dashboard"
                       => lastBuild'.id = i /\ lastBuild'.usageSt \notin {"query", "ok"})]_vars

C14_Witness ==
  \E i \in Tasks :
    /\ tasks[i].usageSt = "fallback"
    /\ IsNil(tasks[i].token)
    /\ ~IsNil(cache.azure_token)
    /\ now - cache.azure_token.timestamp >= TokenValidMs
    /\ tokensIssued = 1

UsageFields == {"totalCost", "inputTokens", "outputTokens", "requests", "dailyData"}
UsageStates == {"skip", "token", "query", "ok", "fallback"}

\* C15: a usage fetch never ends with an exception: it is pending, or it has
\* ended with a usage mapping, the fallback one after a failure; and an
\* aggregation whose usage fetch failed carries no trace of the failure:
\* its snapshot has status success and no error.
C15_UsageFetchNeverRaises ==
  /\ \A i \in Tasks :
       /\ tasks[i].usageSt \in UsageStates
       /\ tasks[i].usageSt \in {"ok", "fallback"}
            => \A name \in DOMAIN tasks[i].usage :
                 DOMAIN tasks[i].usage[name] = UsageFields
       /\ tasks[i].usageSt = "fallback" => tasks[i].usage = getFallbackUsage
  /\ ~IsNil(lastBuild)
       => /\ lastBuild.usageSt \in {"ok", "fallback"}
          /\ (lastBuild.usageSt = "fallback" /\ lastBuild.outcome = "success")
               => /\ lastUpdate.status = "success"
                  /\ "error" \notin DOMAIN lastUpdate

C15_Witness ==
  \E i \in Tasks :
    /\ tasks[i].usageSt = "fallback"
    /\ ~IsNil(tasks[i].token)
    /\ tasks[i].usage = getFallbackUsage
    /\ tasks[i].pricingSt = "wait"

\* C16: a pricing fetch that fails after an earlier one succeeded returns
\* the list of the most recent successful fetch, the one the cache holds.
C16_FailedPricingReturnsLastGood ==
  \A i \in Tasks :
    (tasks[i].pricingSt = "fallback" /\ ~IsNil(cache.pricing))
      => tasks[i].pricing = cache.pricing.data

\* C17: a usage fetch that fails after an earlier one succeeded returns the
\* mapping of the most recent successful fetch, the one the cache holds.
C17_FailedUsageReturnsLastGood ==
  \A i \in Tasks :
    (tasks[i].usageSt = "fallback" /\ ~IsNil(cache.usage))
      => tasks[i].usage = cache.usage.data

\* C18: when the exchange-rate request of an invocation fails, nothing is
\* raised, the stored rates stay as they were, lastUpdate included, and they
\* are what the call returns.
C18_FailedRatesKeepStored ==
  [][\A i \in Tasks :
       (/\ tasks[i].ratesSt = "wait"
        /\ (i \notin Tasks' \/ tasks'[i].ratesSt # "wait")
        /\ Len(rateObjs') = Len(rateObjs))
         => /\ rateObjs' = rateObjs
            /\ exchangeRates' = exchangeRates
            /\ i \in Tasks'
                 => tasks'[i].ratesSt = "cached" /\ tasks'[i].rates = exchangeRates
            /\ (i \notin Tasks' /\ tasks[i].kind = "dashboard")
                 => /\ lastBuild'.ratesSt = "cached"
                    /\ lastBuild'.rates = exchangeRates
                    /\ lastBuild'.outcome = "success"
                         => lastUpdate'.exchangeRates = exchangeRates]_vars

C18_Witness ==
  /\ ~IsNil(lastBuild)
  /\ lastBuild.ratesSt = "cached"
  /\ lastBuild.outcome = "success"
  /\ Len(rateObjs) = 2
  /\ exchangeRates = 2
  /\ lastUpdate.exchangeRates = 2
  /\ rateObjs[2].lastUpdate < now

\* The fetches of an invocation, or of an aggregation that returned, that
\* have not settled.
Pending(rec) ==
  (IF rec.pricingSt = "wait" THEN {"pricing"} ELSE {})
    \cup (IF rec.usageSt \in {"token", "query"} THEN {"usage"} ELSE {})
    \cup (IF rec.ratesSt = "wait" THEN {"rates"} ELSE {})

\* C19: an aggregation merges and publishes only in the step in which the
\* last of its three fetches settles: while one is pending it has neither
\* published nor returned, and the step in which it returns is the one that
\* settles its last pending fetch, whichever that is and however the
\* fetches ended.
C19_MergeAfterAllSettled ==
  /\ [](\A i \in Tasks :
          tasks[i].kind = "dashboard"
            => /\ Pending(tasks[i]) # {}
               /\ \A k \in DOMAIN publishLog : publishLog[k].id # i
               /\ IsNil(lastBuild) \/ lastBuild.id # i)
  /\ [][lastBuild' # lastBuild
          => /\ lastBuild'.id \in Tasks
             /\ Cardinality(Pending(tasks[lastBuild'.id])) = 1
             /\ Pending(lastBuild') = {}
             /\ lastBuild'.pricingSt \in {"ok", "fallback"}
             /\ lastBuild'.usageSt \in {"ok", "fallback"}
             /\ lastBuild'.ratesSt \in {"ok", "cached"}]_vars

C19_Witness ==
  /\ ~IsNil(lastBuild)
  /\ lastBuild.pricingSt = "fallback"
  /\ lastBuild.usageSt = "ok"
  /\ lastBuild.ratesSt = "ok"
  /\ lastBuild.outcome = "success"
  /\ Len(lastUpdate.models) = Len(getFallbackPricing(now))
  /\ lastUpdate.exchangeRates = exchangeRates

\* C20 as stated: every configuration test whose body the request schema
\* accepts has sent a token exchange, and it reports success exactly when
\* that exchange succeeds.
C20_SuccessIffExchangeSucceeds ==
  (~IsNil(testReply) /\ testReply.body # "invalid") =>
    /\ testReply.exchange # "none"
    /\ testReply.exchange = "ok" => testReply.success
    /\ testReply.exchange = "failed" => ~testReply.success

\* The configuration tests in flight.
TestTasks == { i \in Tasks : tasks[i].kind = "test" }

\* C20, amended: a configuration test whose body both schemas accept sends
\* exactly one token exchange and no pricing, usage or exchange-rate fetch,
\* and reports success exactly when that exchange succeeds before the 10 s
\* timer fires; a body a schema rejects is answered with a failure and no
\* exchange; a failed exchange and a timeout are reported as failures; and
\* no answer of the test touches the token cache, the snapshot or the rates
\* of the running service.
C20_TestReportsExchangeWithinLimit ==
  /\ [](/\ \A i \in TestTasks :
            /\ tasks[i].pricingSt = "skip"
            /\ tasks[i].usageSt = "skip"
            /\ tasks[i].ratesSt = "skip"
            /\ tasks[i].testSt \in {"wait", "late"}
        /\ ~IsNil(testReply) =>
            /\ testReply.body = "valid" <=> testReply.exchange # "none"
            /\ testReply.success <=> (testReply.exchange = "ok" /\ ~testReply.timedOut)
            /\ testReply.timedOut => testReply.body = "valid")
  /\ [][testReply' # testReply =>
          /\ cache' = cache
          /\ tokensIssued' = tokensIssued
          /\ lastUpdate' = lastUpdate
          /\ exchangeRates' = exchangeRates
          /\ rateObjs' = rateObjs]_vars

\* A configuration test whose exchange was refused has answered with a
\* failure while the running service holds a cached token of its own.
C20_Witness ==
  /\ ~IsNil(testReply)
  /\ testReply.body = "valid"
  /\ testReply.exchange = "failed"
  /\ ~testReply.success
  /\ ~testReply.timedOut
  /\ ~IsNil(cache.azure_token)

\* A configuration that lacks a required field or carries a credential of
\* invalid format.
Malformed(config) ==
  \/ \E k \in {"subscriptionId", "tenantId", "clientId"} :
        config[k] = UNDEFINED \/ ~IsUUID(config[k])
  \/ config.clientSecret < 32
  \/ config.clientSecret > 255

\* C21: a malformed configuration is rejected before any external call: a
\* server given one never gets past its constructor, so no fetch and no
\* timer of it ever starts; a configuration test given one is answered with
\* a failure, no token exchange is sent for it and nothing of it stays
\* pending; and a rejected server stays rejected.
C21_MalformedConfigRejectedFirst ==
  /\ [](Malformed(server.config) =>
          /\ server.phase \in {"new", "rejected"}
          /\ started = 0
          /\ tasks = << >>
          /\ tokensIssued = 0
          /\ IsNil(lastUpdate))
  /\ []((~IsNil(testReply) /\ Malformed(testReply.config)) =>
          /\ ~testReply.success
          /\ testReply.exchange = "none"
          /\ testReply.id \notin Tasks)
  /\ [][server.phase = "rejected" => server' = server]_vars

\* The server runs on a well-formed configuration and a configuration test
\* was refused a malformed body.
C21_Witness ==
  /\ server.phase = "listening"
  /\ ~IsNil(testReply)
  /\ Malformed(testReply.config)
  /\ ~testReply.success

\* C22: the two timers are independent: whatever is in flight, a tick of
\* either timer can fire and starts its method, the exchange-rate tick with
\* a pending rate request; and the return of a fetchExchangeRates call
\* leaves the snapshot, the publish history and everything sent to the
\* subscribers as they were.
C22_TimersIndependent ==
  /\ [](ENABLED RatesTick /\ ENABLED DashboardTick)
  /\ [][(started' = started + 1 /\ tasks'[started'].kind = "rates")
         => (/\ tasks'[started'].ratesSt = "wait"
             /\ \A i \in Tasks : tasks'[i] = tasks[i])]_vars
  /\ [][\A i \in Tasks :
         (tasks[i].kind = "rates" /\ i \notin Tasks')
           => /\ lastUpdate' = lastUpdate
              /\ publishLog' = publishLog
              /\ lastPublished' = lastPublished
              /\ sent' = sent
              /\ subscribers' = subscribers
              /\ \A j \in Tasks \ {i} : tasks'[j] = tasks[j]]_vars

\* An exchange-rate tick has stored new rates while an aggregation that
\* started before it still waits for all of its fetches.
C22_Witness ==
  /\ exchangeRates = 2
  /\ IsNil(lastUpdate)
  /\ \E i \in Tasks :
       /\ tasks[i].kind = "dashboard"
       /\ tasks[i].pricingSt = "wait"
       /\ tasks[i].ratesSt = "wait"
       /\ tasks[i].usageSt = "token"
       /\ i < started

\* C24: model identification is exclusive and specific before general: a
\* meter text that names gpt-4o-mini is assigned to neither gpt-4o nor gpt-4,
\* one that names a gpt-4 turbo variant is not assigned to gpt-4, and the
\* two classifiers never assign one meter text to different models.
C24_ClassifiersAgree ==
  (call.fn = "extractModel" /\ ~IsNil(call.result)) =>
    LET text == toLowerCase(call.meterName)
        byPrice == IF IsNil(call.result.pricing) THEN "null"
                   ELSE call.result.pricing.model
        byUsage == call.result.usage
    IN  /\ IncludesFrom(text, 1, "gpt-4o-mini")
             => {byPrice, byUsage} \cap {"gpt-4o", "gpt-4"} = {}
        /\ (IncludesFrom(text, 1, "gpt-4-turbo") \/ IncludesFrom(text, 1, "gpt-4 turbo"))
             => "gpt-4" \notin {byPrice, byUsage}
        /\ (byPrice # "null" /\ byUsage # "null") => byPrice = byUsage

\* C23: for every list of raw catalog entries parsePricingData raises
\* nothing and returns exactly one record for each model with an input-price
\* entry and an output-price entry, carrying prices seen in such entries,
\* and no other record.
C23_OneRecordPerPricedModel ==
  (call.fn = "parsePricingData" /\ ~IsNil(call.result)) =>
    /\ call.result.raised = "none"
    /\ LET out == call.result.value
           items == call.items
           PriceEntries(model, type) ==
             { n \in DOMAIN items :
                 /\ ~IsNil(items[n])
                 /\ "retailPrice" \in DOMAIN items[n]
                 /\ extractModelFromMeter(items[n].meterName, items[n].productName)
                      = [model |-> model, type |-> type] }
           Priced(model) == /\ PriceEntries(model, "input") # {}
                            /\ PriceEntries(model, "output") # {}
       IN  /\ \A j, k \in DOMAIN out : out[j].name = out[k].name => j = k
           /\ \A k \in DOMAIN out :
                /\ Priced(out[k].name)
                /\ {"inputPrice", "outputPrice"} \subseteq DOMAIN out[k]
                /\ \E n \in PriceEntries(out[k].name, "input") :
                     items[n].retailPrice = out[k].inputPrice
                /\ \E n \in PriceEntries(out[k].name, "output") :
                     items[n].retailPrice = out[k].outputPrice
           /\ \A model \in {"gpt-4o", "gpt-4o-mini", "gpt-4-turbo", "gpt-4", "gpt-3.5-turbo"} :
                Priced(model) => \E k \in DOMAIN out : out[k].name = model

C26_TrendBetweenLatestDates ==
  (call.fn = "combineModelData" /\ ~IsNil(call.result)) =>
    \A k \in DOMAIN call.result.models :
      LET model == call.result.models[k]
          series == model.usage.dailyData
          Latest(S) == CHOOSE n \in S : \A o \in S : series[o].date <= series[n].date
          last == Latest(DOMAIN series)
          before == Latest((DOMAIN series) \ {last})
      IN  IF Len(series) < 2 THEN model.trend = "+0%"
          ELSE (\A n, o \in DOMAIN series : series[n].date = series[o].date => n = o)
                 => model.trend = calculateTrend(<< series[before], series[last] >>)

\* C27: in every published snapshot the three totals of the summary are the
\* sums of usage.totalCost, of usage.inputTokens + usage.outputTokens and of
\* usage.requests over the models of that same snapshot.
C27_TotalsSumOwnModels ==
  ~IsNil(lastPublished) =>
    LET models == lastPublished.models
        cost[n \in 0..Len(models)] ==
          IF n = 0 THEN 0 ELSE cost[n - 1] + models[n].usage.totalCost
        tokens[n \in 0..Len(models)] ==
          IF n = 0 THEN 0
          ELSE tokens[n - 1] + models[n].usage.inputTokens + models[n].usage.outputTokens
        requests[n \in 0..Len(models)] ==
          IF n = 0 THEN 0 ELSE requests[n - 1] + models[n].usage.requests
    IN  /\ lastPublished.summary.totalCost = cost[Len(models)]
        /\ lastPublished.summary.totalTokens = tokens[Len(models)]
        /\ lastPublished.summary.totalRequests = requests[Len(models)]
        /\ lastUpdate.summary.totalCost = lastPublished.summary.totalCost
        /\ lastUpdate.summary.totalTokens = lastPublished.summary.totalTokens
        /\ lastUpdate.summary.totalRequests = lastPublished.summary.totalRequests
        /\ lastUpdate.models = models

\* A snapshot was published in which two models have cost, output tokens and
\* requests of their own.
C27_Witness ==
  /\ ~IsNil(lastPublished)
  /\ \E j, k \in DOMAIN lastPublished.models :
       /\ j # k
       /\ \A n \in {j, k} :
            /\ lastPublished.models[n].usage.totalCost > 0
            /\ lastPublished.models[n].usage.outputTokens > 0
            /\ lastPublished.models[n].usage.requests > 0

\* C28: the top model of a summary is the name of the model of greatest
\* usage.totalCost in the list, and of several models of that cost the one
\* that stands first in the list.
C28_TopModelIsFirstOfGreatestCost ==
  (call.fn = "calculateSummary" /\ ~IsNil(call.result) /\ Len(call.models) > 0) =>
    \E k \in DOMAIN call.models :
      /\ call.result.summary.topModel = call.models[k].name
      /\ \A j \in DOMAIN call.models :
           /\ call.models[j].usage.totalCost <= call.models[k].usage.totalCost
           /\ j < k => call.models[j].usage.totalCost < call.models[k].usage.totalCost

\* A summary was computed of a list in which two models of different names
\* share the greatest cost and a cheaper model stands before them.
C28_Witness ==
  /\ call.fn = "calculateSummary"
  /\ ~IsNil(call.result)
  /\ \E i, j, k \in DOMAIN call.models :
       /\ i < j /\ j < k
       /\ call.models[i].usage.totalCost < call.models[j].usage.totalCost
       /\ call.models[j].usage.totalCost = call.models[k].usage.totalCost
       /\ call.models[j].name # call.models[k].name
       /\ call.result.summary.topModel = call.models[j].name

\* C29: the average cost per request of a summary is 0 when the requests of
\* the list add up to 0, the empty list included, and else the total cost
\* divided by the total requests; it is never NaN and never an infinity.
C29_AverageCostGuarded ==
  (call.fn = "calculateSummary" /\ ~IsNil(call.result)) =>
    LET summary == call.result.summary
        avg == summary.avgCostPerRequest
    IN  /\ avg[2] # 0
        /\ summary.totalRequests = 0 => avg[1] = 0
        /\ summary.totalRequests # 0
             => avg[1] * summary.totalRequests = summary.totalCost * avg[2]

\* A summary was computed of a list of models that have cost and no
\* requests.
C29_Witness ==
  /\ call.fn = "calculateSummary"
  /\ ~IsNil(call.result)
  /\ Len(call.models) > 1
  /\ call.result.summary.totalRequests = 0
  /\ call.result.summary.totalCost > 0

\* C30: the peak hour of a published snapshot is the time label of a bucket
\* of the largest cost among the lastHour series of the models of that
\* snapshot.
C30_PeakHourIsLargestBucket ==
  (~IsNil(lastPublished) /\ Len(lastPublished.models) > 0) =>
    LET models == lastPublished.models
        Buckets == { models[k].lastHour[j] :
                       k \in DOMAIN models, j \in DOMAIN models[1].lastHour }
    IN  \E peak \in Buckets :
          /\ \A b \in Buckets : b.cost <= peak.cost
          /\ lastPublished.summary.peakHour = peak.time

\* C31: every message sent to a subscriber, the initial one at connect and
\* each broadcast, is an object that carries a message type, one of the
\* WebSocket message types such as "update", next to the snapshot.
C31_PushedMessagesAreTyped ==
  \A s \in DOMAIN sent : \A k \in DOMAIN sent[s] :
    /\ "type" \in DOMAIN sent[s][k].msg
    /\ sent[s][k].msg.type \in {"connect", "disconnect", "update", "error", "ping", "pong"}

\* C32: validateAzureConfig answers isValid with no errors exactly when the
\* three identifiers are UUIDs, the secret has 32 to 255 characters, the
\* resource group name is well-formed and the region is supported; else it
\* answers not valid with an error for exactly each field that is missing
\* or invalid.
C32_ErrorsNameExactlyBadFields ==
  (call.fn = "validateAzureConfig" /\ ~IsNil(call.result)) =>
    LET config == call.config
        Good(field) ==
          /\ field \in DOMAIN config
          /\ CASE field = "subscriptionId" -> config[field] = GoodConfig.subscriptionId
               [] field = "tenantId" -> config[field] = GoodConfig.tenantId
               [] field = "clientId" ->
                    config[field] \in {GoodConfig.clientId,
                                       "C3E8A1F2-6B4D-4A9E-B7C5-0D1E2F3A4B5C"}
               [] field = "clientSecret" -> config[field] \in 32..255
               [] field = "resourceGroup" ->
                    config[field] \in {"my-resource-group", "rg_(prod).1"}
               [] field = "region" -> config[field] \in {"westeurope", "eastAsia"}
        Fields == {"subscriptionId", "tenantId", "clientId", "clientSecret",
                   "resourceGroup", "region"}
    IN  /\ DOMAIN call.result.errors = { f \in Fields : ~Good(f) }
        /\ call.result.isValid = (\A f \in Fields : Good(f))

\* A configuration was validated that has a malformed identifier, a secret
\* of 256 characters and no region, and is well-formed otherwise.
C32_Witness ==
  /\ call.fn = "validateAzureConfig"
  /\ ~IsNil(call.result)
  /\ ~call.result.isValid
  /\ DOMAIN call.result.errors = {"subscriptionId", "clientSecret", "region"}
  /\ call.config.clientSecret = 256
  /\ "region" \notin DOMAIN call.config

\* C33: what sanitizeInput returns contains none of < > ' " ; and neither
\* starts nor ends with whitespace, and sanitizing it again returns it
\* unchanged.
C33_SanitizedIsTrimmedAndClean ==
  (call.fn = "sanitizeInput" /\ ~IsNil(call.result)) =>
    LET value == call.result.value
    IN  /\ \A k \in 1..Len(value) : SubSeq(value, k, k) \notin {"<", ">", "'", "\"", ";"}
        /\ value # "" => SubSeq(value, 1, 1) # " " /\ SubSeq(value, Len(value), Len(value)) # " "
        /\ sanitizeInput(value) = value

\* C34: the current snapshot is replaced only in the step that broadcasts
\* its successor, so a snapshot is sent exactly once on every connection
\* that is subscribed and open: in the step that publishes it when the
\* connection was accepted before, in the step that accepts the connection
\* when it is the current one then, and in no other step (a send that
\* throws is counted as sent: its connection is not one that stays open).
C34_SnapshotSentExactlyOnce ==
  [][/\ lastUpdate' # lastUpdate => publishLog' # publishLog
     /\ Len(readyState') > Len(readyState) => publishLog' = publishLog
     /\ \A s \in DOMAIN sent' :
          LET accepted == s \notin DOMAIN sent
              new == IF accepted THEN sent'[s]
                     ELSE SubSeq(sent'[s], Len(sent[s]) + 1, Len(sent'[s]))
              due == IF accepted THEN ~IsNil(lastUpdate)
                     ELSE /\ publishLog' # publishLog
                          /\ s \in subscribers
                          /\ readyState[s] = "OPEN"
          IN  /\ Len(new) = (IF due THEN 1 ELSE 0)
              /\ ~accepted => SubSeq(sent'[s], 1, Len(sent[s])) = sent[s]
              /\ \A k \in DOMAIN new :
                   /\ new[k].msg = JSONStringify(lastUpdate', rateObjs')
                   /\ new[k].via = (IF accepted THEN "connect" ELSE "broadcast")]_vars

\* Two connections are open and subscribed, one accepted before a
\* snapshot was published and one after; each was sent that snapshot once,
\* the first by the broadcast and the second at its acceptance.
C34_Witness ==
  \E r, s \in subscribers :
    /\ r < s
    /\ readyState[r] = "OPEN" /\ readyState[s] = "OPEN"
    /\ Len(publishLog) = 1
    /\ sent[r] = << [msg |-> lastPublished, ok |-> TRUE, via |-> "broadcast"] >>
    /\ sent[s] = << [msg |-> lastPublished, ok |-> TRUE, via |-> "connect"] >>

\* C35: at any moment at most one token exchange of the service is in
\* flight: callers of getAzureAccessToken that find no valid cached token
\* while an exchange is under way share it.
C35_OneExchangeInFlight ==
  \A i, j \in Tasks :
    (tasks[i].usageSt = "token" /\ tasks[j].usageSt = "token") => i = j

\* C36: for every model of a usage response the tokens of a daily entry are
\* the floor of the cost of its row over the average token price of the
\* model, the input and output tokens are the sums over the rows of the
\* floors of 0.7 and 0.3 times those tokens, and so their sum does not
\* exceed the sum of the tokens of the daily entries and falls short of it
\* by one token a row at most.
C36_TokensSplitSeventyThirty ==
  (call.fn = "combineModelData" /\ ~IsNil(call.result)) =>
    \A m \in DOMAIN call.result.models :
      LET usage == call.result.models[m].usage
          series == usage.dailyData
          price == ("gpt-4o" :> 6000) @@ ("gpt-4o-mini" :> 375) @@ ("gpt-3.5-turbo" :> 1000)
          share[k \in 0..Len(series)] ==
            IF k = 0 THEN [input |-> 0, output |-> 0, tokens |-> 0]
            ELSE [input |-> share[k - 1].input + (7 * series[k].tokens) \div 10,
                  output |-> share[k - 1].output + (3 * series[k].tokens) \div 10,
                  tokens |-> share[k - 1].tokens + series[k].tokens]
          all == share[Len(series)]
      IN  /\ \A k \in DOMAIN series :
               LET t == series[k].tokens
                   p == price[call.result.models[m].name]
               IN  t * p <= series[k].cost * 10000000
                     /\ series[k].cost * 10000000 < (t + 1) * p
          /\ usage.inputTokens = all.input
          /\ usage.outputTokens = all.output
          /\ usage.inputTokens + usage.outputTokens <= all.tokens
          /\ all.tokens - (usage.inputTokens + usage.outputTokens) <= Len(series)

\* C37: the step in which a socket of a client closes schedules exactly one
\* reconnection 5 seconds ahead and no other step schedules any, whatever
\* the number of closes before; a client never has more than one socket
\* that is connecting or open; and a client whose server stays within
\* reach from some moment on is connected again and again.
C37_OneReconnectPerClose ==
  /\ [](\A c \in DOMAIN clients :
          Cardinality({ k \in DOMAIN clients[c].sockets :
                          clients[c].sockets[k] # "CLOSED" }) <= 1)
  /\ [][\A c \in DOMAIN clients :
          LET old == clients[c]
              new == clients'[c]
              closes == /\ Len(new.sockets) = Len(old.sockets)
                        /\ \E k \in DOMAIN old.sockets :
                             old.sockets[k] # "CLOSED" /\ new.sockets[k] = "CLOSED"
          IN  IF closes THEN new.timers = Append(old.timers, ReconnectSeconds)
              ELSE Len(new.timers) <= Len(old.timers)]_vars
  /\ \A c \in 1..MaxClients :
       <>[](c \in DOMAIN clients /\ clients[c].online)
         => []<>(/\ c \in DOMAIN clients
                 /\ \E k \in DOMAIN clients[c].sockets : clients[c].sockets[k] = "OPEN")

\* A client whose socket has closed waits for its reconnection timer, due
\* in 3 seconds, with the server within reach again, while the socket that
\* the timer of another client created after a close is connecting.
C37_Witness ==
  /\ Len(clients) = 2
  /\ clients[1].sockets = << "CONNECTING" >>
  /\ clients[1].status = "disconnected"
  /\ clients[1].timers = << >>
  /\ clients[2].sockets = << "CLOSED" >>
  /\ clients[2].timers = << 3 >>
  /\ clients[2].online

\* C38: a fetch of the hook that fails, whatever way it fails, leaves
\* dashboardData and lastUpdate as they are, from the call of
\* fetchDashboardData to the end of its catch and finally blocks, and ends
\* with an error, connectionStatus 'error' and loading false; dashboardData
\* goes back to null only in the step in which isConfigured becomes false.
C38_FailedFetchKeepsData ==
  [][/\ \A trigger \in { "interval", "focus", "online", "refetch" } :
          HookFetch(trigger) => /\ hook'.dashboardData = hook.dashboardData
                                /\ hook'.lastUpdate = hook.lastUpdate
     /\ \A k \in 1..MaxFetches,
           outcome \in { "network error", "status", "unsuccessful", "malformed" } :
          HookSettle(k, outcome) => /\ hook'.dashboardData = hook.dashboardData
                                    /\ hook'.lastUpdate = hook.lastUpdate
                                    /\ hook'.error = [message |-> outcome]
                                    /\ hook'.connectionStatus = "error"
                                    /\ ~hook'.loading
     /\ (hook # Nil /\ hook.dashboardData # Nil /\ hook'.dashboardData = Nil)
          => hook.isConfigured /\ ~hook'.isConfigured]_vars

\* A response is shown, and a later request has failed with a status that
\* is not 2xx.
C38_Witness ==
  /\ hook # Nil
  /\ hook.dashboardData = [response |-> 1]
  /\ hook.lastUpdate = [time |-> 2]
  /\ hook.error = [message |-> "status"]
  /\ hook.connectionStatus = "error"
  /\ ~hook.loading
  /\ hook.events = 4

\* C39: of the requests of the hook that overlap, the one started last
\* decides: while another request is still in flight a completion leaves
\* loading true and connectionStatus 'connecting', and the data shown are
\* never replaced by the response of a request that started earlier.
C39_LatestRequestWins ==
  [][\A k \in 1..MaxFetches,
        outcome \in { "ok", "network error", "status", "unsuccessful", "malformed" } :
       HookSettle(k, outcome) =>
         /\ hook'.fetches # << >>
              => hook'.loading /\ hook'.connectionStatus = "connecting"
         /\ (outcome = "ok" /\ hook.dashboardData # Nil)
              => hook'.dashboardData.response >= hook.dashboardData.response]_vars

\* C40: a request to a public endpoint is passed on and leaves the failed
\* attempts alone; a request to another endpoint from an address with 5 or
\* more recorded failures, the last at most 15 minutes old, is answered
\* with 429 whatever key it carries and records nothing; the first such
\* request more than 15 minutes after the last failure deletes the record
\* (the request itself may fail and start a new one); and a request with
\* the configured key from an address that is not locked out is passed on
\* and leaves the address without a record.
C40_LockoutRejectsAndExpires ==
  [][\A ip \in { "10.0.0.1", "10.0.0.2" },
        path \in { "/api/health", "/api/dashboard" },
        authorization \in { UNDEFINED, "Bearer key", "Bearer other" },
        xApiKey \in { UNDEFINED, "key" } :
       LET req      == [ip |-> ip, path |-> path, middleware |-> "authenticateApiKey",
                        verified |-> FALSE,
                        headers |-> [authorization |-> authorization, xApiKey |-> xApiKey]]
           public   == path \in { "/api/health", "/api/metrics", "/" }
           recorded == ip \in DOMAIN auth.failedAttempts
           age      == now - auth.failedAttempts[ip].lastAttempt
           locked   == /\ recorded
                       /\ auth.failedAttempts[ip].count >= 5
                       /\ age <= 15 * 60 * 1000
           rightKey == \/ authorization = "Bearer key"
                       \/ authorization = UNDEFINED /\ xApiKey = "key"
       IN  AuthRequest(req) =>
             /\ public => /\ auth'.reply = [next |-> TRUE]
                          /\ auth'.failedAttempts = auth.failedAttempts
             /\ (~public /\ locked)
                  => /\ auth'.reply = [status |-> 429]
                     /\ auth'.failedAttempts = auth.failedAttempts
             /\ (~public /\ recorded /\ age > 15 * 60 * 1000)
                  => \/ ip \notin DOMAIN auth'.failedAttempts
                     \/ auth'.failedAttempts[ip] = [count |-> 1, lastAttempt |-> now]
             /\ (~public /\ ~locked /\ auth.config.apiKey = "key" /\ rightKey)
                  => /\ auth'.reply = [next |-> TRUE]
                     /\ ip \notin DOMAIN auth'.failedAttempts]_vars

\* An address whose fifth failure is exactly 15 minutes old has been
\* answered with 429, while the other address has no record.
C40_Witness ==
  /\ auth # Nil
  /\ DOMAIN auth.failedAttempts = { "10.0.0.1" }
  /\ auth.failedAttempts["10.0.0.1"] = [count |-> 5, lastAttempt |-> StartTime]
  /\ now = StartTime + lockoutDuration
  /\ auth.reply = [status |-> 429]

====
